---------------------------- MODULE Spec2Model ----------------------------
(***************************************************************************)
(* State-machine model of the allocator / ARC cache / notification bus    *)
(* triad of the unfound kernel extension layer.                            *)
(*                                                                         *)
(*   buddy    modules/axalloc/src/allocators/buddy.rs   BuddyAllocator     *)
(*   hybrid   modules/axalloc/src/allocators/hybrid.rs  HybridAllocator    *)
(*   arc      xmodules/ucache/src/arc_cache.rs          ARCache            *)
(*   watcher  umodules/unotify/src/watcher.rs           FileWatcher        *)
(*                                                                         *)
(* Every object is one record-valued variable whose fields carry the       *)
(* names of the struct's fields.  The *_obs variables are history          *)
(* variables: the value the last call returned and what a caller of the    *)
(* object has been handed and has not given back.                          *)
(***************************************************************************)
EXTENDS Integers, Sequences, FiniteSets, TLC

VARIABLES buddy, buddy_obs, hybrid, hybrid_obs, arc, arc_obs, watcher, watcher_obs,
          fs, fs_obs, threads, driver, tasks, procs

vars == <<buddy, buddy_obs, hybrid, hybrid_obs, arc, arc_obs, watcher, watcher_obs,
          fs, fs_obs, threads, driver, tasks, procs>>

(***************************************************************************)
(* Program constants                                                       *)
(***************************************************************************)
PAGE_SIZE == 4096

THRESHOLD_PAGES == 64

(***************************************************************************)
(* Bounds of the model                                                     *)
(***************************************************************************)
\* largest region (in pages) handed to BuddyAllocator::init
MaxBuddyPages == 8

\* the larger of the two regions (in pages) handed to HybridAllocator::init
MaxHybridPages == 130

\* largest capacity given to ARCache::new
MaxArcCapacity == 2

\* number of distinct keys the callers of the cache use
NumArcKeys == 5

\* get calls a run of the cache makes (hits + misses)
MaxArcGets == 2

\* max_events of the modelled watcher (FileWatcher::new sets 1024)
QueueCapacity == 3

\* events a run of the watcher enqueues
MaxAccepted == 4

\* add_watch calls a run of the watcher makes
MaxWatches == 2

\* add_watch calls and enqueuing triggers in the watch-table specification
MaxWatchCalls == 3

MaxWatchTriggers == 2

\* threads calling add_watch
NumThreads == 2

\* cache lookups of a run of the hook layer
MaxHookReads == 2

\* keys of the caches that store two different values
NumValueKeys == 3

\* threads calling the shared cache, the keys they use and the calls they make
NumTasks == 2

NumTaskKeys == 2

MaxTaskCalls == 6

\* capacity of the cache the threads share
TaskCapacity == 1

\* threads calling one allocator, watcher or hook layer, and the calls they make
NumProcs == 2

MaxProcCalls == 4

\* pages of the region the threads allocate from
ProcRegionPages == 4

\* successful allocations a run of the hybrid allocator makes
MaxHybridAllocs == 4

(***************************************************************************)
(* Integer helpers (usize arithmetic; no value of the model comes near     *)
(* 2^64, so wrap-around is not reachable in these operators)               *)
(***************************************************************************)
RECURSIVE Pow2(_)
Pow2(n) == IF n <= 0 THEN 1 ELSE 2 * Pow2(n - 1)

\* usize::is_power_of_two
RECURSIVE is_power_of_two(_)
is_power_of_two(x) ==
    IF x <= 0 THEN FALSE
    ELSE IF x = 1 THEN TRUE
    ELSE IF x % 2 = 1 THEN FALSE
    ELSE is_power_of_two(x \div 2)

\* usize::next_power_of_two: the smallest power of two >= n (1 for n = 0)
RECURSIVE NextPow2From(_, _)
NextPow2From(v, n) == IF v >= n THEN v ELSE NextPow2From(2 * v, n)

next_power_of_two(n) == NextPow2From(1, n)

\* buddy.rs ceil_log2: while v < n { v <<= 1; r += 1 }
RECURSIVE CeilLog2Loop(_, _, _)
CeilLog2Loop(v, r, n) == IF v < n THEN CeilLog2Loop(2 * v, r + 1, n) ELSE r

ceil_log2(n) == IF n <= 1 THEN 0 ELSE CeilLog2Loop(1, 0, n)

\* (usize::BITS - 1) - n.leading_zeros(): index of the highest set bit, n >= 1
RECURSIVE floor_log2(_)
floor_log2(n) == IF n <= 1 THEN 0 ELSE 1 + floor_log2(n \div 2)

\* x & !(PAGE_SIZE - 1)
page_round_down(x) == x - (x % PAGE_SIZE)

\* memory_addr::is_aligned
is_aligned(addr, align) == addr % align = 0

Min(a, b) == IF a <= b THEN a ELSE b

Max(a, b) == IF a >= b THEN a ELSE b

\* idx ^ (1 << order) for a non-negative idx
\* a buddy index that is always the upper neighbour
xor_bit_upper(idx, order) == idx + Pow2(order)

xor_bit(idx, order) ==
    IF (idx \div Pow2(order)) % 2 = 0 THEN idx + Pow2(order) ELSE idx - Pow2(order)

Ret(tag, addr) == [tag |-> tag, addr |-> addr]

\* remove the element at position pos (1-based) of a sequence
RemoveAt(s, pos) == SubSeq(s, 1, pos - 1) \o SubSeq(s, pos + 1, Len(s))

\* position of the first element equal to x (0 when there is none)
PositionOf(s, x) ==
    IF \E i \in 1..Len(s) : s[i] = x
    THEN CHOOSE i \in 1..Len(s) : s[i] = x /\ \A j \in 1..(i - 1) : s[j] # x
    ELSE 0

(***************************************************************************)
(* BuddyAllocator                                                          *)
(*   free_lists is Vec<Vec<usize>>: free_lists[o + 1] is the list of order *)
(*   o, its last element the one pop() takes.                              *)
(***************************************************************************)
BuddyNew ==
    [base |-> 0, total_pages |-> 0, max_order |-> 0,
     free_lists |-> <<>>, alloc_map |-> <<>>, used_pages |-> 0]

\* BTreeMap helpers: a map is a function over the set of its keys
MapInsert(m, k, v) == [x \in (DOMAIN m) \cup {k} |-> IF x = k THEN v ELSE m[x]]

MapRemove(m, k) == [x \in (DOMAIN m) \ {k} |-> m[x]]

EmptyMap == [x \in {} |-> 0]

push_free(lists, order, idx) ==
    LET grown == IF order >= Len(lists)
                 THEN lists \o [i \in 1..(order + 1 - Len(lists)) |-> <<>>]
                 ELSE lists
    IN [grown EXCEPT ![order + 1] = Append(@, idx)]

\* pop_free returns Some exactly when the list of that order exists and is non-empty
pop_free_some(lists, order) == order < Len(lists) /\ Len(lists[order + 1]) > 0

pop_free_idx(lists, order) == lists[order + 1][Len(lists[order + 1])]

pop_free_lists(lists, order) ==
    [lists EXCEPT ![order + 1] = SubSeq(@, 1, Len(@) - 1)]

remove_free_exact_found(lists, order, idx) ==
    order < Len(lists) /\ PositionOf(lists[order + 1], idx) > 0

\* Vec::swap_remove(pos): the last element takes the place of the removed one
swap_remove(s, pos) ==
    IF pos = Len(s) THEN SubSeq(s, 1, Len(s) - 1)
    ELSE SubSeq([s EXCEPT ![pos] = s[Len(s)]], 1, Len(s) - 1)

remove_free_exact_lists(lists, order, idx) ==
    [lists EXCEPT ![order + 1] = swap_remove(@, PositionOf(@, idx))]

\* init: while (1 << (mo + 1)) <= total_pages { mo += 1 }
RECURSIVE BuddyMaxOrder(_, _)
BuddyMaxOrder(mo, total_pages) ==
    IF Pow2(mo + 1) <= total_pages THEN BuddyMaxOrder(mo + 1, total_pages) ELSE mo

\* init: greedy seeding of the free lists by the leading bit of `remaining`
RECURSIVE BuddySeed(_, _, _)
BuddySeed(lists, remaining, offset) ==
    IF remaining > 0
    THEN LET order == floor_log2(remaining)
         IN BuddySeed(push_free(lists, order, offset),
                      remaining - Pow2(order), offset + Pow2(order))
    ELSE lists

BuddyInitEnd(start_vaddr, size) == page_round_down(start_vaddr + size)

BuddyInitStart(start_vaddr) == page_round_down(start_vaddr + PAGE_SIZE - 1)

BuddyInit(start_vaddr, size) ==
    /\ buddy.total_pages = 0
    /\ LET end == BuddyInitEnd(start_vaddr, size)
           start == BuddyInitStart(start_vaddr)
           total_pages == (end - start) \div PAGE_SIZE
           mo == BuddyMaxOrder(0, total_pages)
       IN IF end <= start \/ total_pages = 0
          THEN /\ buddy' = buddy
               /\ buddy_obs' = [buddy_obs EXCEPT !.ret = Ret("InvalidParam", 0)]
          ELSE /\ buddy' = [base |-> start, total_pages |-> total_pages,
                            max_order |-> mo,
                            free_lists |-> BuddySeed([i \in 1..(mo + 1) |-> <<>>],
                                                     total_pages, 0),
                            alloc_map |-> EmptyMap, used_pages |-> 0]
               /\ buddy_obs' = [buddy_obs EXCEPT !.ret = Ret("Ok", 0)]
    /\ UNCHANGED <<hybrid, hybrid_obs, arc, arc_obs, watcher, watcher_obs, fs, fs_obs, threads, driver, tasks, procs>>

\* alloc_pages: the upper half pushed when a block of order cur_order + 1 is split
buddy_split_idx_lower(cur_idx, cur_order) == cur_idx

buddy_split_idx(cur_idx, cur_order) == cur_idx + Pow2(cur_order)

\* alloc_pages: while cur_order > order { cur_order -= 1; push_free(cur_order, buddy_idx) }
RECURSIVE BuddySplit(_, _, _, _)
BuddySplit(lists, cur_idx, cur_order, order) ==
    IF cur_order > order
    THEN BuddySplit(push_free(lists, cur_order - 1, buddy_split_idx(cur_idx, cur_order - 1)),
                    cur_idx, cur_order - 1, order)
    ELSE lists

\* the orders o in order..max_order whose pop_free returns Some
BuddyFitOrders(b, order) ==
    {o \in order..b.max_order : pop_free_some(b.free_lists, o)}

BuddyFirstFit(b, order) ==
    CHOOSE o \in BuddyFitOrders(b, order) : \A o2 \in BuddyFitOrders(b, order) : o <= o2

AlignInvalid(align_pow2) == align_pow2 < PAGE_SIZE \/ ~is_power_of_two(align_pow2)

\* history: an extent handed to the caller
ObsAlloc(obs, addr, pages) ==
    [obs EXCEPT !.ret = Ret("Ok", addr),
                !.live = @ \cup {[addr |-> addr, pages |-> pages]},
                !.reissued = @ \/ (\E e \in obs.live : e.addr = addr)]

\* history: the caller gives back the extent that starts at pos
ObsDealloc(obs, pos) ==
    [obs EXCEPT !.ret = Ret("None", 0),
                !.live = {e \in @ : e.addr # pos}]

\* alloc_pages past its parameter checks: the order of the request, whether some
\* free-list from that order up has a block, the index it returns and the
\* allocator it leaves
buddy_alloc_order(num_pages) == ceil_log2(next_power_of_two(num_pages))

buddy_alloc_fits(b, num_pages) == BuddyFitOrders(b, buddy_alloc_order(num_pages)) # {}

buddy_alloc_idx(b, num_pages) ==
    pop_free_idx(b.free_lists, BuddyFirstFit(b, buddy_alloc_order(num_pages)))

buddy_alloc_state(b, num_pages) ==
    LET order == buddy_alloc_order(num_pages)
        o == BuddyFirstFit(b, order)
        idx == pop_free_idx(b.free_lists, o)
        popped == pop_free_lists(b.free_lists, o)
    IN [b EXCEPT !.free_lists = BuddySplit(popped, idx, o, order),
                 !.alloc_map = MapInsert(@, idx, order),
                 !.used_pages = @ + Pow2(order)]

BuddyAllocPages(num_pages, align_pow2) ==
    /\ IF num_pages = 0 \/ AlignInvalid(align_pow2)
       THEN /\ buddy' = buddy
            /\ buddy_obs' = [buddy_obs EXCEPT !.ret = Ret("InvalidParam", 0)]
       ELSE IF ~buddy_alloc_fits(buddy, num_pages)
            THEN /\ buddy' = buddy
                 /\ buddy_obs' = [buddy_obs EXCEPT !.ret = Ret("NoMemory", 0)]
            ELSE /\ buddy' = buddy_alloc_state(buddy, num_pages)
                 /\ buddy_obs' = ObsAlloc(buddy_obs,
                        buddy.base + buddy_alloc_idx(buddy, num_pages) * PAGE_SIZE,
                        Pow2(buddy_alloc_order(num_pages)))
    /\ UNCHANGED <<hybrid, hybrid_obs, arc, arc_obs, watcher, watcher_obs, fs, fs_obs, threads, driver, tasks, procs>>

BuddyAllocPagesAt(start, num_pages, align_pow2) ==
    /\ IF \/ num_pages = 0
          \/ AlignInvalid(align_pow2)
          \/ start < buddy.base
          \/ start >= buddy.base + buddy.total_pages * PAGE_SIZE
          \/ ~is_aligned(start, align_pow2)
       THEN /\ buddy' = buddy
            /\ buddy_obs' = [buddy_obs EXCEPT !.ret = Ret("InvalidParam", 0)]
       ELSE LET idx == (start - buddy.base) \div PAGE_SIZE
                needed == next_power_of_two(num_pages)
                order == ceil_log2(needed)
            IN IF remove_free_exact_found(buddy.free_lists, order, idx)
               THEN /\ buddy' = [buddy EXCEPT
                           !.free_lists = remove_free_exact_lists(@, order, idx),
                           !.alloc_map = MapInsert(@, idx, order),
                           !.used_pages = @ + Pow2(order)]
                    /\ buddy_obs' = ObsAlloc(buddy_obs, start, Pow2(order))
               ELSE /\ buddy' = buddy
                    /\ buddy_obs' = [buddy_obs EXCEPT !.ret = Ret("NoMemory", 0)]
    /\ UNCHANGED <<hybrid, hybrid_obs, arc, arc_obs, watcher, watcher_obs, fs, fs_obs, threads, driver, tasks, procs>>

\* a dealloc_pages that never merges the freed block with its buddy
BuddyCoalesceNever(lists, idx, cur_order, max_order) == <<lists, idx, cur_order>>

\* dealloc_pages: the coalescing loop; yields <<lists, idx, cur_order>> at its break
RECURSIVE BuddyCoalesce(_, _, _, _)
BuddyCoalesce(lists, idx, cur_order, max_order) ==
    LET buddy_idx == xor_bit(idx, cur_order)
    IN IF remove_free_exact_found(lists, cur_order, buddy_idx)
       THEN IF cur_order + 1 > max_order
            THEN <<remove_free_exact_lists(lists, cur_order, buddy_idx),
                   Min(idx, buddy_idx), cur_order + 1>>
            ELSE BuddyCoalesce(remove_free_exact_lists(lists, cur_order, buddy_idx),
                               Min(idx, buddy_idx), cur_order + 1, max_order)
       ELSE <<lists, idx, cur_order>>

\* dealloc_pages returns early: pos outside the region, not page aligned, or not
\* the start of a recorded allocation
buddy_dealloc_ignored(b, pos) ==
    \/ pos < b.base
    \/ pos >= b.base + b.total_pages * PAGE_SIZE
    \/ ~is_aligned(pos, PAGE_SIZE)
    \/ ((pos - b.base) \div PAGE_SIZE) \notin DOMAIN b.alloc_map

\* the allocator dealloc_pages(pos, _) leaves
buddy_dealloc_state(b, pos) ==
    IF buddy_dealloc_ignored(b, pos)
    THEN b
    ELSE LET idx == (pos - b.base) \div PAGE_SIZE
             order == b.alloc_map[idx]
             c == BuddyCoalesce(b.free_lists, idx, order, b.max_order)
         IN [b EXCEPT !.alloc_map = MapRemove(@, idx),
                      !.free_lists = push_free(c[1], c[3], c[2]),
                      !.used_pages = @ - Pow2(order)]

BuddyDeallocPages(pos, num_pages) ==
    /\ buddy' = buddy_dealloc_state(buddy, pos)
    /\ buddy_obs' = ObsDealloc(buddy_obs, pos)
    /\ UNCHANGED <<hybrid, hybrid_obs, arc, arc_obs, watcher, watcher_obs, fs, fs_obs, threads, driver, tasks, procs>>

(***************************************************************************)
(* BuddyAllocator called by several threads.                               *)
(*   The methods take &self; free_lists, alloc_map and used_pages each     *)
(*   have their own SpinNoIrq, taken by push_free, pop_free,               *)
(*   remove_free_exact and by single statements.  Each of those is one     *)
(*   step.  procs.buddy.thr[t] is the call of thread t and its locals;     *)
(*   procs.buddy.snap is the allocator when the first of the calls under   *)
(*   way began and procs.buddy.round the calls made since (history).       *)
(***************************************************************************)
Procs == 1..NumProcs

BuddyProcNew ==
    [pc |-> "idle", op |-> "none", n |-> 0, pos |-> 0, idx |-> 0, order |-> 0,
     cur_order |-> 0, ret |-> Ret("None", 0)]

BuddyProcsNew ==
    [thr |-> [t \in Procs |-> BuddyProcNew], snap |-> BuddyNew, round |-> EmptyMap,
     calls |-> 0]

\* one statement: the allocator and the thread it leaves
BStmt(b, pr) == [b |-> b, pr |-> pr]

\* alloc_pages(n, PAGE_SIZE), statement by statement
buddy_alloc_stmt(b, pr) ==
    CASE pr.pc = "a_begin" ->
            IF pr.n = 0
            THEN BStmt(b, [pr EXCEPT !.pc = "ret", !.ret = Ret("InvalidParam", 0)])
            ELSE BStmt(b, [pr EXCEPT !.pc = "a_pop",
                                     !.order = buddy_alloc_order(pr.n),
                                     !.cur_order = buddy_alloc_order(pr.n)])
      [] pr.pc = "a_pop" ->
            IF pr.cur_order > b.max_order
            THEN BStmt(b, [pr EXCEPT !.pc = "ret", !.ret = Ret("NoMemory", 0)])
            ELSE IF pop_free_some(b.free_lists, pr.cur_order)
                 THEN BStmt([b EXCEPT !.free_lists = pop_free_lists(@, pr.cur_order)],
                            [pr EXCEPT !.pc = "a_split",
                                       !.idx = pop_free_idx(b.free_lists, pr.cur_order)])
                 ELSE BStmt(b, [pr EXCEPT !.cur_order = @ + 1])
      [] pr.pc = "a_split" ->
            IF pr.cur_order > pr.order
            THEN BStmt([b EXCEPT !.free_lists =
                           push_free(@, pr.cur_order - 1,
                                     buddy_split_idx(pr.idx, pr.cur_order - 1))],
                       [pr EXCEPT !.cur_order = @ - 1])
            ELSE BStmt([b EXCEPT !.alloc_map = MapInsert(@, pr.idx, pr.order)],
                       [pr EXCEPT !.pc = "a_used"])
      [] pr.pc = "a_used" ->
            BStmt([b EXCEPT !.used_pages = @ + Pow2(pr.order)],
                  [pr EXCEPT !.pc = "ret",
                             !.ret = Ret("Ok", b.base + pr.idx * PAGE_SIZE)])

\* alloc_pages_at(pos, n, PAGE_SIZE), statement by statement
buddy_alloc_at_stmt(b, pr) ==
    CASE pr.pc = "at_begin" ->
            IF \/ pr.n = 0
               \/ pr.pos < b.base
               \/ pr.pos >= b.base + b.total_pages * PAGE_SIZE
               \/ ~is_aligned(pr.pos, PAGE_SIZE)
            THEN BStmt(b, [pr EXCEPT !.pc = "ret", !.ret = Ret("InvalidParam", 0)])
            ELSE BStmt(b, [pr EXCEPT !.pc = "at_remove",
                                     !.idx = (pr.pos - b.base) \div PAGE_SIZE,
                                     !.order = buddy_alloc_order(pr.n)])
      [] pr.pc = "at_remove" ->
            IF remove_free_exact_found(b.free_lists, pr.order, pr.idx)
            THEN BStmt([b EXCEPT !.free_lists =
                           remove_free_exact_lists(@, pr.order, pr.idx)],
                       [pr EXCEPT !.pc = "at_map"])
            ELSE BStmt(b, [pr EXCEPT !.pc = "ret", !.ret = Ret("NoMemory", 0)])
      [] pr.pc = "at_map" ->
            BStmt([b EXCEPT !.alloc_map = MapInsert(@, pr.idx, pr.order)],
                  [pr EXCEPT !.pc = "at_used"])
      [] pr.pc = "at_used" ->
            BStmt([b EXCEPT !.used_pages = @ + Pow2(pr.order)],
                  [pr EXCEPT !.pc = "ret", !.ret = Ret("Ok", pr.pos)])

\* dealloc_pages(pos, _), statement by statement
buddy_dealloc_stmt(b, pr) ==
    CASE pr.pc = "d_begin" ->
            IF buddy_dealloc_ignored(b, pr.pos)
            THEN BStmt(b, [pr EXCEPT !.pc = "ret"])
            ELSE LET idx == (pr.pos - b.base) \div PAGE_SIZE
                 IN BStmt([b EXCEPT !.alloc_map = MapRemove(@, idx)],
                          [pr EXCEPT !.pc = "d_loop", !.idx = idx,
                                     !.order = b.alloc_map[idx],
                                     !.cur_order = b.alloc_map[idx]])
      [] pr.pc = "d_loop" ->
            LET buddy_idx == xor_bit(pr.idx, pr.cur_order)
            IN IF remove_free_exact_found(b.free_lists, pr.cur_order, buddy_idx)
               THEN BStmt([b EXCEPT !.free_lists =
                              remove_free_exact_lists(@, pr.cur_order, buddy_idx)],
                          [pr EXCEPT !.idx = Min(pr.idx, buddy_idx),
                                     !.cur_order = @ + 1,
                                     !.pc = IF pr.cur_order + 1 > b.max_order
                                            THEN "d_push" ELSE "d_loop"])
               ELSE BStmt(b, [pr EXCEPT !.pc = "d_push"])
      [] pr.pc = "d_push" ->
            BStmt([b EXCEPT !.free_lists = push_free(@, pr.cur_order, pr.idx)],
                  [pr EXCEPT !.pc = "d_used"])
      [] pr.pc = "d_used" ->
            BStmt([b EXCEPT !.used_pages = @ - Pow2(pr.order)],
                  [pr EXCEPT !.pc = "ret"])

\* the allocator alloc_pages_at(start, n, PAGE_SIZE) leaves when run alone
buddy_alloc_at_state(b, start, num_pages) ==
    LET idx == (start - b.base) \div PAGE_SIZE
        order == buddy_alloc_order(num_pages)
    IN IF \/ num_pages = 0
          \/ start < b.base
          \/ start >= b.base + b.total_pages * PAGE_SIZE
          \/ ~is_aligned(start, PAGE_SIZE)
          \/ ~remove_free_exact_found(b.free_lists, order, idx)
       THEN b
       ELSE [b EXCEPT !.free_lists = remove_free_exact_lists(@, order, idx),
                      !.alloc_map = MapInsert(@, idx, order),
                      !.used_pages = @ + Pow2(order)]

BuddyAllIdle(bp) == \A t \in Procs : bp.thr[t].pc = "idle"

\* thread t calls alloc_pages, alloc_pages_at or dealloc_pages; a thread makes
\* one call among the calls that overlap
BuddyProcCall(t, op, n, pos) ==
    /\ buddy.total_pages > 0
    /\ procs.buddy.thr[t].pc = "idle"
    /\ BuddyAllIdle(procs.buddy) \/ t \notin DOMAIN procs.buddy.round
    /\ procs' = [procs EXCEPT
           !.buddy.thr[t] = [BuddyProcNew EXCEPT
               !.pc = CASE op = "alloc" -> "a_begin"
                        [] op = "at" -> "at_begin"
                        [] OTHER -> "d_begin",
               !.op = op, !.n = n, !.pos = pos],
           !.buddy.snap = IF BuddyAllIdle(procs.buddy) THEN buddy ELSE @,
           !.buddy.round =
               MapInsert(IF BuddyAllIdle(procs.buddy) THEN EmptyMap ELSE @, t,
                         [op |-> op, n |-> n, pos |-> pos]),
           !.buddy.calls = @ + 1]
    /\ buddy_obs' = IF op = "dealloc" THEN ObsDealloc(buddy_obs, pos) ELSE buddy_obs
    /\ UNCHANGED <<buddy, hybrid, hybrid_obs, arc, arc_obs, watcher, watcher_obs,
                   fs, fs_obs, threads, driver, tasks>>

BuddyProcDo(t, st) ==
    /\ buddy' = st.b
    /\ procs' = [procs EXCEPT !.buddy.thr[t] = st.pr]
    /\ UNCHANGED <<buddy_obs, hybrid, hybrid_obs, arc, arc_obs, watcher, watcher_obs,
                   fs, fs_obs, threads, driver, tasks>>

BuddyProcAlloc(t) ==
    /\ procs.buddy.thr[t].pc \in {"a_begin", "a_pop", "a_split", "a_used"}
    /\ BuddyProcDo(t, buddy_alloc_stmt(buddy, procs.buddy.thr[t]))

BuddyProcAllocAt(t) ==
    /\ procs.buddy.thr[t].pc \in {"at_begin", "at_remove", "at_map", "at_used"}
    /\ BuddyProcDo(t, buddy_alloc_at_stmt(buddy, procs.buddy.thr[t]))

BuddyProcDealloc(t) ==
    /\ procs.buddy.thr[t].pc \in {"d_begin", "d_loop", "d_push", "d_used"}
    /\ BuddyProcDo(t, buddy_dealloc_stmt(buddy, procs.buddy.thr[t]))

\* the call of thread t returns; the caller holds the extent of a successful
\* allocation
BuddyProcReturn(t) ==
    /\ procs.buddy.thr[t].pc = "ret"
    /\ procs' = [procs EXCEPT !.buddy.thr[t] = BuddyProcNew]
    /\ buddy_obs' =
          IF procs.buddy.thr[t].ret.tag = "Ok"
          THEN ObsAlloc(buddy_obs, procs.buddy.thr[t].ret.addr,
                        Pow2(procs.buddy.thr[t].order))
          ELSE buddy_obs
    /\ UNCHANGED <<buddy, hybrid, hybrid_obs, arc, arc_obs, watcher, watcher_obs,
                   fs, fs_obs, threads, driver, tasks>>

(***************************************************************************)
(* HybridAllocator                                                         *)
(*   bitmap is Vec<u8>: bitmap_size is its length in bytes and bitmap the  *)
(*   set of bit positions (byte_idx * 8 + bit_idx) that hold 1 (= free).   *)
(*   free_list and alloc_map are BTreeMaps (functions over their keys).    *)
(*   panicked records that a call ended in a Rust panic.                   *)
(***************************************************************************)
HybridNew ==
    [base |-> 0, total_pages |-> 0, bitmap |-> {}, bitmap_size |-> 0,
     free_list |-> EmptyMap, alloc_map |-> EmptyMap, used_pages |-> 0,
     panicked |-> FALSE]

\* a mark_free that also sets the bit after the extent
mark_free_one_more(h, start_idx, count) ==
    h.bitmap \cup {i \in start_idx..(start_idx + count) : i < h.total_pages}

mark_free(h, start_idx, count) ==
    h.bitmap \cup {i \in start_idx..(start_idx + count - 1) : i < h.total_pages}

mark_allocated(h, start_idx, count) ==
    h.bitmap \ {i \in start_idx..(start_idx + count - 1) : i < h.total_pages}

\* the starts `for start in 0..total_pages - needed + 1` visits whose run is all ones
BitmapFreeRuns(h, needed) ==
    {s \in 0..(h.total_pages - needed) :
        \A i \in s..(s + needed - 1) : i \in h.bitmap}

\* find_free_in_bitmap: "Some", "None" or "Panic".  total_pages - needed underflows
\* when needed > total_pages: a build with overflow checks panics there; without
\* them the range is empty for needed = total_pages + 1 and otherwise the scan runs
\* off the end of the Vec and panics on the index.
find_free_in_bitmap_outcomes(h, needed) ==
    IF needed <= h.total_pages
    THEN IF BitmapFreeRuns(h, needed) = {} THEN {"None"} ELSE {"Some"}
    ELSE IF needed = h.total_pages + 1 THEN {"Panic", "None"} ELSE {"Panic"}

find_free_in_bitmap_start(h, needed) ==
    CHOOSE s \in BitmapFreeRuns(h, needed) : \A s2 \in BitmapFreeRuns(h, needed) : s <= s2

\* find_free_block: the first entry in key order with size >= needed_pages
FreeBlocksFitting(h, needed_pages) ==
    {k \in DOMAIN h.free_list : h.free_list[k] >= needed_pages}

find_free_block(h, needed_pages) ==
    CHOOSE k \in FreeBlocksFitting(h, needed_pages) :
        \A k2 \in FreeBlocksFitting(h, needed_pages) : k <= k2

split_block(fl, start_idx, original_size, needed_size) ==
    IF original_size > needed_size
    THEN MapInsert(fl, start_idx + needed_size, original_size - needed_size)
    ELSE fl

try_merge(fl, start_idx, size) ==
    LET end_idx == start_idx + size
        before == {k \in DOMAIN fl : k < start_idx}
        after == {k \in DOMAIN fl : k >= end_idx}
        prev_idx == CHOOSE k \in before : \A k2 \in before : k2 <= k
        next_idx == CHOOSE k \in after : \A k2 \in after : k <= k2
    IN IF before # {} /\ prev_idx + fl[prev_idx] = start_idx
       THEN MapInsert(MapRemove(fl, prev_idx), prev_idx, fl[prev_idx] + size)
       ELSE IF after # {} /\ next_idx = end_idx
            THEN MapInsert(MapRemove(fl, next_idx), start_idx, size + fl[next_idx])
            ELSE fl

HybridInit(start_vaddr, size) ==
    /\ hybrid.total_pages = 0
    /\ ~hybrid.panicked
    /\ LET end == page_round_down(start_vaddr + size)
           start == page_round_down(start_vaddr + PAGE_SIZE - 1)
           total_pages == (end - start) \div PAGE_SIZE
       IN IF end <= start \/ total_pages = 0
          THEN /\ hybrid' = hybrid
               /\ hybrid_obs' = [hybrid_obs EXCEPT !.ret = Ret("InvalidParam", 0)]
          ELSE /\ hybrid' = [base |-> start, total_pages |-> total_pages,
                             bitmap |-> 0..(total_pages - 1),
                             bitmap_size |-> (total_pages + 7) \div 8,
                             free_list |-> MapInsert(EmptyMap, 0, total_pages),
                             alloc_map |-> EmptyMap, used_pages |-> 0,
                             panicked |-> FALSE]
               /\ hybrid_obs' = [hybrid_obs EXCEPT !.ret = Ret("Ok", 0)]
    /\ UNCHANGED <<buddy, buddy_obs, arc, arc_obs, watcher, watcher_obs, fs, fs_obs, threads, driver, tasks, procs>>

HybridFail(tag) ==
    /\ hybrid' = hybrid
    /\ hybrid_obs' = [hybrid_obs EXCEPT !.ret = Ret(tag, 0)]

HybridPanic ==
    /\ hybrid' = [hybrid EXCEPT !.panicked = TRUE]
    /\ hybrid_obs' = [hybrid_obs EXCEPT !.ret = Ret("Panic", 0)]

\* the allocator after the success path shared by the large branches of
\* alloc_pages and alloc_pages_at
hybrid_take_large(h, block_idx, block_size, num_pages) ==
    [h EXCEPT
        !.free_list = split_block(MapRemove(@, block_idx), block_idx,
                                  block_size, num_pages),
        !.alloc_map = MapInsert(@, block_idx, <<num_pages, TRUE>>),
        !.used_pages = @ + num_pages]

\* the allocator after the success path shared by the small branches
hybrid_take_small(h, block_idx, num_pages) ==
    [h EXCEPT
        !.bitmap = mark_allocated(h, block_idx, num_pages),
        !.alloc_map = MapInsert(@, block_idx, <<num_pages, FALSE>>),
        !.used_pages = @ + num_pages]

HybridTakeLarge(block_idx, block_size, num_pages) ==
    /\ hybrid' = hybrid_take_large(hybrid, block_idx, block_size, num_pages)
    /\ hybrid_obs' = [ObsAlloc(hybrid_obs, hybrid.base + block_idx * PAGE_SIZE, num_pages)
                          EXCEPT !.issued = @ + 1]

HybridTakeSmall(block_idx, num_pages) ==
    /\ hybrid' = hybrid_take_small(hybrid, block_idx, num_pages)
    /\ hybrid_obs' = [ObsAlloc(hybrid_obs, hybrid.base + block_idx * PAGE_SIZE, num_pages)
                          EXCEPT !.issued = @ + 1]

\* alloc_pages(num_pages, PAGE_SIZE) with num_pages >= 1 returns Ok: the large
\* branch finds a fitting block, or the small branch finds a run of ones
hybrid_alloc_fits(h, num_pages) ==
    IF num_pages >= THRESHOLD_PAGES
    THEN FreeBlocksFitting(h, num_pages) # {}
    ELSE num_pages <= h.total_pages /\ BitmapFreeRuns(h, num_pages) # {}

\* the page index that call returns and the allocator it leaves
hybrid_alloc_idx(h, num_pages) ==
    IF num_pages >= THRESHOLD_PAGES
    THEN find_free_block(h, num_pages)
    ELSE find_free_in_bitmap_start(h, num_pages)

hybrid_alloc_state(h, num_pages) ==
    IF num_pages >= THRESHOLD_PAGES
    THEN hybrid_take_large(h, find_free_block(h, num_pages),
                           h.free_list[find_free_block(h, num_pages)], num_pages)
    ELSE hybrid_take_small(h, find_free_in_bitmap_start(h, num_pages), num_pages)

HybridAllocPages(num_pages, align_pow2) ==
    /\ ~hybrid.panicked
    /\ IF num_pages = 0 \/ AlignInvalid(align_pow2)
       THEN HybridFail("InvalidParam")
       ELSE IF num_pages >= THRESHOLD_PAGES
            THEN IF FreeBlocksFitting(hybrid, num_pages) # {}
                 THEN LET block_idx == find_free_block(hybrid, num_pages)
                      IN HybridTakeLarge(block_idx, hybrid.free_list[block_idx], num_pages)
                 ELSE HybridFail("NoMemory")
            ELSE \E out \in find_free_in_bitmap_outcomes(hybrid, num_pages) :
                    CASE out = "Some" ->
                           HybridTakeSmall(find_free_in_bitmap_start(hybrid, num_pages),
                                           num_pages)
                      [] out = "None" -> HybridFail("NoMemory")
                      [] OTHER -> HybridPanic
    /\ UNCHANGED <<buddy, buddy_obs, arc, arc_obs, watcher, watcher_obs, fs, fs_obs, threads, driver, tasks, procs>>

\* alloc_pages_at, small branch: the scan `for i in idx..idx + num_pages` reads
\* bitmap[i / 8]; "Free", "Busy", or "Panic" when it indexes past the Vec before
\* it meets a zero bit
HybridScanAt(h, idx, num_pages) ==
    LET zeros == {i \in idx..(idx + num_pages - 1) : i \notin h.bitmap}
        first == CHOOSE i \in zeros : \A j \in zeros : i <= j
    IN IF zeros = {} THEN "Free"
       ELSE IF first \div 8 >= h.bitmap_size THEN "Panic"
       ELSE "Busy"

HybridAllocPagesAt(start, num_pages, align_pow2) ==
    /\ ~hybrid.panicked
    /\ IF \/ num_pages = 0
          \/ AlignInvalid(align_pow2)
          \/ start < hybrid.base
          \/ start >= hybrid.base + hybrid.total_pages * PAGE_SIZE
          \/ ~is_aligned(start, align_pow2)
       THEN HybridFail("InvalidParam")
       ELSE LET idx == (start - hybrid.base) \div PAGE_SIZE
            IN IF num_pages >= THRESHOLD_PAGES
               THEN IF idx \in DOMAIN hybrid.free_list /\ hybrid.free_list[idx] >= num_pages
                    THEN HybridTakeLarge(idx, hybrid.free_list[idx], num_pages)
                    ELSE HybridFail("NoMemory")
               ELSE CASE HybridScanAt(hybrid, idx, num_pages) = "Free" ->
                            HybridTakeSmall(idx, num_pages)
                      [] HybridScanAt(hybrid, idx, num_pages) = "Busy" ->
                            HybridFail("NoMemory")
                      [] OTHER -> HybridPanic
    /\ UNCHANGED <<buddy, buddy_obs, arc, arc_obs, watcher, watcher_obs, fs, fs_obs, threads, driver, tasks, procs>>

\* the allocator dealloc_pages(pos, _) leaves
hybrid_dealloc_state(h, pos) ==
    IF \/ pos < h.base
       \/ pos >= h.base + h.total_pages * PAGE_SIZE
       \/ ~is_aligned(pos, PAGE_SIZE)
       \/ ((pos - h.base) \div PAGE_SIZE) \notin DOMAIN h.alloc_map
    THEN h
    ELSE LET idx == (pos - h.base) \div PAGE_SIZE
             size == h.alloc_map[idx][1]
             is_large == h.alloc_map[idx][2]
         IN IF is_large
            THEN [h EXCEPT
                     !.alloc_map = MapRemove(@, idx),
                     !.free_list = try_merge(MapInsert(@, idx, size), idx, size),
                     !.used_pages = @ - size]
            ELSE [h EXCEPT
                     !.alloc_map = MapRemove(@, idx),
                     !.bitmap = mark_free(h, idx, size),
                     !.used_pages = @ - size]

HybridDeallocPages(pos, num_pages) ==
    /\ ~hybrid.panicked
    /\ hybrid' = hybrid_dealloc_state(hybrid, pos)
    /\ hybrid_obs' = ObsDealloc(hybrid_obs, pos)
    /\ UNCHANGED <<buddy, buddy_obs, arc, arc_obs, watcher, watcher_obs, fs, fs_obs, threads, driver, tasks, procs>>

(***************************************************************************)
(* HybridAllocator called by several threads.                              *)
(*   bitmap, free_list, alloc_map and used_pages each have their own       *)
(*   SpinNoIrq; one step per lock acquisition.  procs.hybrid.thr[t] is the *)
(*   call of thread t and its locals, procs.hybrid.got the extents the     *)
(*   calls returned, in the order of their return (history).               *)
(***************************************************************************)
HybridProcNew ==
    [pc |-> "idle", n |-> 0, pos |-> 0, idx |-> 0, size |-> 0, ret |-> Ret("None", 0)]

HybridProcsNew == [thr |-> [t \in Procs |-> HybridProcNew], got |-> <<>>, calls |-> 0]

HStmt(h, pr) == [h |-> h, pr |-> pr]

\* alloc_pages(n, PAGE_SIZE), statement by statement; n is at most total_pages
hybrid_alloc_stmt(h, pr) ==
    CASE pr.pc = "ha_begin" ->
            IF pr.n = 0
            THEN HStmt(h, [pr EXCEPT !.pc = "ret", !.ret = Ret("InvalidParam", 0)])
            ELSE IF pr.n >= THRESHOLD_PAGES
                 THEN IF FreeBlocksFitting(h, pr.n) # {}
                      THEN HStmt(h, [pr EXCEPT !.pc = "hl_remove",
                                       !.idx = find_free_block(h, pr.n),
                                       !.size = h.free_list[find_free_block(h, pr.n)]])
                      ELSE HStmt(h, [pr EXCEPT !.pc = "ret", !.ret = Ret("NoMemory", 0)])
                 ELSE IF BitmapFreeRuns(h, pr.n) # {}
                      THEN HStmt(h, [pr EXCEPT !.pc = "hs_mark",
                                       !.idx = find_free_in_bitmap_start(h, pr.n)])
                      ELSE HStmt(h, [pr EXCEPT !.pc = "ret", !.ret = Ret("NoMemory", 0)])
      [] pr.pc = "hl_remove" ->
            HStmt([h EXCEPT !.free_list = MapRemove(@, pr.idx)], [pr EXCEPT !.pc = "hl_split"])
      [] pr.pc = "hl_split" ->
            HStmt([h EXCEPT !.free_list = split_block(@, pr.idx, pr.size, pr.n)],
                  [pr EXCEPT !.pc = "h_map"])
      [] pr.pc = "hs_mark" ->
            HStmt([h EXCEPT !.bitmap = mark_allocated(h, pr.idx, pr.n)],
                  [pr EXCEPT !.pc = "h_map"])
      [] pr.pc = "h_map" ->
            HStmt([h EXCEPT !.alloc_map =
                      MapInsert(@, pr.idx, <<pr.n, pr.n >= THRESHOLD_PAGES>>)],
                  [pr EXCEPT !.pc = "h_used"])
      [] pr.pc = "h_used" ->
            HStmt([h EXCEPT !.used_pages = @ + pr.n],
                  [pr EXCEPT !.pc = "ret", !.ret = Ret("Ok", h.base + pr.idx * PAGE_SIZE)])

\* alloc_pages_at(pos, n, PAGE_SIZE) up to the statements it shares with
\* alloc_pages; the large branch looks the block up and removes it under one
\* free_list guard
hybrid_alloc_at_stmt(h, pr) ==
    LET idx == (pr.pos - h.base) \div PAGE_SIZE
    IN IF \/ pr.n = 0
          \/ pr.pos < h.base
          \/ pr.pos >= h.base + h.total_pages * PAGE_SIZE
          \/ ~is_aligned(pr.pos, PAGE_SIZE)
       THEN HStmt(h, [pr EXCEPT !.pc = "ret", !.ret = Ret("InvalidParam", 0)])
       ELSE IF pr.n >= THRESHOLD_PAGES
            THEN IF idx \in DOMAIN h.free_list /\ h.free_list[idx] >= pr.n
                 THEN HStmt([h EXCEPT !.free_list = MapRemove(@, idx)],
                            [pr EXCEPT !.pc = "hl_split", !.idx = idx,
                                       !.size = h.free_list[idx]])
                 ELSE HStmt(h, [pr EXCEPT !.pc = "ret", !.ret = Ret("NoMemory", 0)])
            ELSE CASE HybridScanAt(h, idx, pr.n) = "Free" ->
                         HStmt(h, [pr EXCEPT !.pc = "hs_mark", !.idx = idx])
                   [] HybridScanAt(h, idx, pr.n) = "Busy" ->
                         HStmt(h, [pr EXCEPT !.pc = "ret", !.ret = Ret("NoMemory", 0)])
                   [] OTHER -> HStmt(h, [pr EXCEPT !.pc = "panicked"])

HybridProcCall(t, op, n, pos) ==
    /\ hybrid.total_pages > 0
    /\ procs.hybrid.thr[t].pc = "idle"
    /\ procs' = [procs EXCEPT
           !.hybrid.thr[t] = [HybridProcNew EXCEPT
               !.pc = IF op = "alloc" THEN "ha_begin" ELSE "hat_begin",
               !.n = n, !.pos = pos],
           !.hybrid.calls = @ + 1]
    /\ UNCHANGED <<buddy, buddy_obs, hybrid, hybrid_obs, arc, arc_obs, watcher,
                   watcher_obs, fs, fs_obs, threads, driver, tasks>>

HybridProcDo(t, st) ==
    /\ hybrid' = st.h
    /\ procs' = [procs EXCEPT !.hybrid.thr[t] = st.pr]
    /\ UNCHANGED <<buddy, buddy_obs, hybrid_obs, arc, arc_obs, watcher, watcher_obs,
                   fs, fs_obs, threads, driver, tasks>>

HybridProcAlloc(t) ==
    /\ procs.hybrid.thr[t].pc \in
          {"ha_begin", "hl_remove", "hl_split", "hs_mark", "h_map", "h_used"}
    /\ HybridProcDo(t, hybrid_alloc_stmt(hybrid, procs.hybrid.thr[t]))

HybridProcAllocAt(t) ==
    /\ procs.hybrid.thr[t].pc = "hat_begin"
    /\ HybridProcDo(t, hybrid_alloc_at_stmt(hybrid, procs.hybrid.thr[t]))

\* the call of thread t returns; a successful one hands its extent to the caller
HybridProcReturn(t) ==
    /\ procs.hybrid.thr[t].pc = "ret"
    /\ procs' = [procs EXCEPT
           !.hybrid.thr[t] = HybridProcNew,
           !.hybrid.got =
               IF procs.hybrid.thr[t].ret.tag = "Ok"
               THEN Append(@, [addr |-> procs.hybrid.thr[t].ret.addr,
                               pages |-> procs.hybrid.thr[t].n])
               ELSE @]
    /\ UNCHANGED <<buddy, buddy_obs, hybrid, hybrid_obs, arc, arc_obs, watcher,
                   watcher_obs, fs, fs_obs, threads, driver, tasks>>

(***************************************************************************)
(* ARCache                                                                 *)
(*   t1, t2, b1, b2 are VecDeques (front = LRU = position 1, back = MRU);  *)
(*   cache is the BTreeMap key -> CacheEntry.value.  The operators below   *)
(*   are the methods run by one thread from call to return.                *)
(***************************************************************************)
ARCacheNew(capacity) ==
    [t1 |-> <<>>, t2 |-> <<>>, b1 |-> <<>>, b2 |-> <<>>, cache |-> EmptyMap,
     p |-> 0, capacity |-> capacity, hits |-> 0, misses |-> 0]

SeqContains(s, key) == \E i \in 1..Len(s) : s[i] = key

\* VecDeque::retain(|k| k != key)
retain_ne(s, key) == SelectSeq(s, LAMBDA k : k # key)

in_b1(a, key) == SeqContains(a.b1, key)

in_b2(a, key) == SeqContains(a.b2, key)

\* the key pushed on T2 without being removed from T1
promote_to_t2_keep_t1(a, key) ==
    IF SeqContains(a.t1, key) THEN [a EXCEPT !.t2 = Append(@, key)] ELSE a

\* the key moved to the front (LRU end) of T2
promote_to_t2_front(a, key) ==
    IF SeqContains(a.t1, key)
    THEN [a EXCEPT !.t1 = RemoveAt(@, PositionOf(@, key)),
                   !.t2 = <<key>> \o @]
    ELSE IF SeqContains(a.t2, key)
         THEN [a EXCEPT !.t2 = <<key>> \o RemoveAt(@, PositionOf(@, key))]
         ELSE a

promote_to_t2(a, key) ==
    IF SeqContains(a.t1, key)
    THEN [a EXCEPT !.t1 = RemoveAt(@, PositionOf(@, key)),
                   !.t2 = Append(@, key)]
    ELSE IF SeqContains(a.t2, key)
         THEN [a EXCEPT !.t2 = Append(RemoveAt(@, PositionOf(@, key)), key)]
         ELSE a

\* push_back(old_key) without the pop_front
ghost_push_unbounded(ghost, old_key, capacity) == Append(ghost, old_key)

\* a ghost list after push_back(old_key) and the pop_front that keeps it <= capacity
ghost_push(ghost, old_key, capacity) ==
    IF Len(ghost) + 1 > capacity THEN Tail(Append(ghost, old_key))
    ELSE Append(ghost, old_key)

should_evict_from_t1(a, key) ==
    IF Len(a.t1) > 0
    THEN Len(a.t1) > a.p \/ (in_b2(a, key) /\ Len(a.t1) = a.p)
    ELSE FALSE

replace(a, key) ==
    IF should_evict_from_t1(a, key)
    THEN [a EXCEPT !.t1 = Tail(@),
                   !.cache = MapRemove(@, Head(a.t1)),
                   !.b1 = ghost_push(@, Head(a.t1), a.capacity)]
    ELSE IF Len(a.t2) > 0
         THEN [a EXCEPT !.t2 = Tail(@),
                        !.cache = MapRemove(@, Head(a.t2)),
                        !.b2 = ghost_push(@, Head(a.t2), a.capacity)]
         ELSE a

\* handle_b1_hit: the new value of p
b1_hit_p(p, b1_len, b2_len, capacity) ==
    Min(p + (IF b1_len >= b2_len THEN 1 ELSE b2_len \div b1_len), capacity)

\* p - delta in place of p.saturating_sub(delta)
b2_hit_p_unsaturated(p, b1_len, b2_len) ==
    p - (IF b2_len >= b1_len THEN 1 ELSE b1_len \div b2_len)

\* handle_b2_hit: the new value of p (saturating_sub)
b2_hit_p(p, b1_len, b2_len) ==
    Max(p - (IF b2_len >= b1_len THEN 1 ELSE b1_len \div b2_len), 0)

\* the key pushed on T1 in place of T2
ghost_hit_finish_to_t1(a, key, value) ==
    LET r == replace(a, key)
    IN [r EXCEPT !.cache = MapInsert(@, key, value), !.t1 = Append(@, key)]

\* the tail shared by both ghost hits: replace, store the value, push key on T2
ghost_hit_finish(a, key, value) ==
    LET r == replace(a, key)
    IN [r EXCEPT !.cache = MapInsert(@, key, value), !.t2 = Append(@, key)]

handle_b1_hit(a, key, value) ==
    ghost_hit_finish([a EXCEPT !.p = b1_hit_p(a.p, Len(a.b1), Len(a.b2), a.capacity),
                               !.b1 = retain_ne(@, key)],
                     key, value)

handle_b2_hit(a, key, value) ==
    ghost_hit_finish([a EXCEPT !.p = b2_hit_p(a.p, Len(a.b1), Len(a.b2)),
                               !.b2 = retain_ne(@, key)],
                     key, value)

\* VecDeque::pop_front on a possibly empty deque
pop_front(s) == IF Len(s) > 0 THEN Tail(s) ELSE s

\* insert_new: the state before the final insert into the cache and T1
insert_new_evict(a, key) ==
    LET t1_len == Len(a.t1)
        t2_len == Len(a.t2)
        b1_len == Len(a.b1)
        l1_len == t1_len + b1_len
        total == t1_len + t2_len + b1_len + Len(a.b2)
    IN IF l1_len = a.capacity
       THEN IF t1_len < a.capacity
            THEN replace([a EXCEPT !.b1 = pop_front(@)], key)
            ELSE IF Len(a.t1) > 0
                 THEN [a EXCEPT !.t1 = Tail(@), !.cache = MapRemove(@, Head(a.t1))]
                 ELSE a
       ELSE IF total >= 2 * a.capacity
            THEN IF total = 2 * a.capacity
                 THEN replace([a EXCEPT !.b2 = pop_front(@)], key)
                 ELSE replace(a, key)
            ELSE a

insert_new(a, key, value) ==
    [insert_new_evict(a, key) EXCEPT !.cache = MapInsert(@, key, value),
                                     !.t1 = Append(@, key)]

put(a, key, value) ==
    IF key \in DOMAIN a.cache
    THEN promote_to_t2([a EXCEPT !.cache = MapInsert(@, key, value)], key)
    ELSE IF in_b1(a, key) THEN handle_b1_hit(a, key, value)
    ELSE IF in_b2(a, key) THEN handle_b2_hit(a, key, value)
    ELSE insert_new(a, key, value)

get(a, key) ==
    IF key \in DOMAIN a.cache
    THEN promote_to_t2([a EXCEPT !.hits = @ + 1], key)
    ELSE [a EXCEPT !.misses = @ + 1]

\* get's result: Some(value) read from the cache after the promotion, or None
get_result(a, key) ==
    IF key \in DOMAIN a.cache /\ key \in DOMAIN get(a, key).cache
    THEN [tag |-> "Some", value |-> get(a, key).cache[key]]
    ELSE [tag |-> "None", value |-> 0]

\* an invalidate that leaves the ghost lists alone
invalidate_resident_only(a, key) ==
    [a EXCEPT !.cache = MapRemove(@, key),
              !.t1 = retain_ne(@, key), !.t2 = retain_ne(@, key)]

invalidate(a, key) ==
    [a EXCEPT !.cache = MapRemove(@, key),
              !.t1 = retain_ne(@, key), !.t2 = retain_ne(@, key),
              !.b1 = retain_ne(@, key), !.b2 = retain_ne(@, key)]

ArcPut(key, value) ==
    /\ arc' = put(arc, key, value)
    /\ arc_obs' = [ret |-> [tag |-> "Unit", value |-> 0]]
    /\ UNCHANGED <<buddy, buddy_obs, hybrid, hybrid_obs, watcher, watcher_obs, fs, fs_obs, threads, driver, tasks, procs>>

ArcGet(key) ==
    /\ arc' = get(arc, key)
    /\ arc_obs' = [ret |-> get_result(arc, key)]
    /\ UNCHANGED <<buddy, buddy_obs, hybrid, hybrid_obs, watcher, watcher_obs, fs, fs_obs, threads, driver, tasks, procs>>

ArcInvalidate(key) ==
    /\ arc' = invalidate(arc, key)
    /\ arc_obs' = [ret |-> [tag |-> "Unit", value |-> 0]]
    /\ UNCHANGED <<buddy, buddy_obs, hybrid, hybrid_obs, watcher, watcher_obs, fs, fs_obs, threads, driver, tasks, procs>>

(***************************************************************************)
(* ARCache called by several threads.                                      *)
(*   Every lock-protected block and every atomic load, store or fetch_add  *)
(*   is one step.  tasks.pc[t] is the statement thread t is at,            *)
(*   tasks.op / key / value its call, tasks.after[t] the statement that    *)
(*   follows the promote_to_t2 or replace it is in, tasks.loc[t] its       *)
(*   local variables.  The write guard of `if let Some(old_key) =          *)
(*   self.t1.write().pop_front()` lives to the end of the if-let body, so  *)
(*   T1 (or T2) stays locked while the body runs.                          *)
(*   tasks.calls counts the calls started and tasks.gets_done the get      *)
(*   calls that returned (history).                                        *)
(***************************************************************************)
Tasks == 1..NumTasks

LocNew == [t1_len |-> 0, t2_len |-> 0, b1_len |-> 0, b2_len |-> 0, p |-> 0, old |-> 0]

TasksNew ==
    [pc |-> [t \in Tasks |-> "idle"], op |-> [t \in Tasks |-> "none"],
     key |-> [t \in Tasks |-> 0], value |-> [t \in Tasks |-> 0],
     after |-> [t \in Tasks |-> "ret"], loc |-> [t \in Tasks |-> LocNew],
     calls |-> 0, gets_done |-> 0]

\* the statements that take the T1 lock, the T2 lock, and the ones reached
\* with the T1 or T2 write guard of an if-let still alive
TakesT1 ==
    {"pro_t1", "ins_t1_len", "ins_t1_pop", "ins_push", "rep_t1_len", "rep_t1_pop",
     "inv_t1"}

TakesT2 == {"pro_push", "pro_move", "hit_push", "ins_t2_len", "rep_t2_pop", "inv_t2"}

\* the statements that take the value-store lock, the B1 lock and the B2 lock
TakesCache ==
    {"put_begin", "hit_insert", "ins_cache_rm", "ins_insert", "rep_cache_rm1",
     "rep_cache_rm2", "get_begin", "get_read", "inv_cache"}

TakesB1 ==
    {"put_in_b1", "h1_b1_len", "h2_b1_len", "h1_retain", "ins_b1_len", "ins_b1_pop",
     "rep_b1_push", "inv_b1"}

TakesB2 ==
    {"put_in_b2", "h1_b2_len", "h2_b2_len", "h2_retain", "ins_b2_len", "ins_b2_pop",
     "rep_in_b2", "rep_b2_push", "inv_b2"}

HoldsT1 == {"rep_cache_rm1", "rep_b1_push", "ins_cache_rm"}

HoldsT2 == {"rep_cache_rm2", "rep_b2_push"}

\* thread t is not spinning on a lock another thread holds
lock_free_for(tk, t) ==
    /\ tk.pc[t] \in TakesT1 => \A u \in Tasks \ {t} : tk.pc[u] \notin HoldsT1
    /\ tk.pc[t] \in TakesT2 => \A u \in Tasks \ {t} : tk.pc[u] \notin HoldsT2

\* the outcome of one statement: the cache, the next statement, the locals and
\* the continuation
Stmt(a, pc, loc, after) == [a |-> a, pc |-> pc, loc |-> loc, after |-> after]

\* put up to the dispatch on the four cases
put_stmt(a, pc, key, value, loc, after) ==
    CASE pc = "put_begin" ->
            IF key \in DOMAIN a.cache
            THEN Stmt([a EXCEPT !.cache = MapInsert(@, key, value)], "pro_t1", loc, "ret")
            ELSE Stmt(a, "put_in_b1", loc, after)
      [] pc = "put_in_b1" ->
            Stmt(a, IF in_b1(a, key) THEN "h1_b1_len" ELSE "put_in_b2", loc, after)
      [] pc = "put_in_b2" ->
            Stmt(a, IF in_b2(a, key) THEN "h2_b1_len" ELSE "ins_t1_len", loc, after)

\* handle_b1_hit; b2_len / b1_len divides by zero when another thread emptied B1
handle_b1_hit_stmt(a, pc, key, value, loc, after) ==
    CASE pc = "h1_b1_len" -> Stmt(a, "h1_b2_len", [loc EXCEPT !.b1_len = Len(a.b1)], after)
      [] pc = "h1_b2_len" ->
            IF loc.b1_len < Len(a.b2) /\ loc.b1_len = 0
            THEN Stmt(a, "panicked", loc, after)
            ELSE Stmt(a, "h1_p_load", [loc EXCEPT !.b2_len = Len(a.b2)], after)
      [] pc = "h1_p_load" -> Stmt(a, "h1_p_store", [loc EXCEPT !.p = a.p], after)
      [] pc = "h1_p_store" ->
            Stmt([a EXCEPT !.p = b1_hit_p(loc.p, loc.b1_len, loc.b2_len, a.capacity)],
                 "h1_retain", loc, after)
      [] pc = "h1_retain" ->
            Stmt([a EXCEPT !.b1 = retain_ne(@, key)], "rep_t1_len", loc, "hit_insert")
      [] pc = "hit_insert" ->
            Stmt([a EXCEPT !.cache = MapInsert(@, key, value)], "hit_push", loc, after)
      [] pc = "hit_push" -> Stmt([a EXCEPT !.t2 = Append(@, key)], "ret", loc, after)

\* handle_b2_hit up to replace (it ends in the same two statements)
handle_b2_hit_stmt(a, pc, key, value, loc, after) ==
    CASE pc = "h2_b1_len" -> Stmt(a, "h2_b2_len", [loc EXCEPT !.b1_len = Len(a.b1)], after)
      [] pc = "h2_b2_len" ->
            IF Len(a.b2) < loc.b1_len /\ Len(a.b2) = 0
            THEN Stmt(a, "panicked", loc, after)
            ELSE Stmt(a, "h2_p_load", [loc EXCEPT !.b2_len = Len(a.b2)], after)
      [] pc = "h2_p_load" -> Stmt(a, "h2_p_store", [loc EXCEPT !.p = a.p], after)
      [] pc = "h2_p_store" ->
            Stmt([a EXCEPT !.p = b2_hit_p(loc.p, loc.b1_len, loc.b2_len)],
                 "h2_retain", loc, after)
      [] pc = "h2_retain" ->
            Stmt([a EXCEPT !.b2 = retain_ne(@, key)], "rep_t1_len", loc, "hit_insert")

insert_new_stmt(a, pc, key, value, loc, after) ==
    CASE pc = "ins_t1_len" -> Stmt(a, "ins_t2_len", [loc EXCEPT !.t1_len = Len(a.t1)], after)
      [] pc = "ins_t2_len" -> Stmt(a, "ins_b1_len", [loc EXCEPT !.t2_len = Len(a.t2)], after)
      [] pc = "ins_b1_len" ->
            Stmt(a,
                 IF loc.t1_len + Len(a.b1) = a.capacity
                 THEN IF loc.t1_len < a.capacity THEN "ins_b1_pop" ELSE "ins_t1_pop"
                 ELSE "ins_b2_len",
                 [loc EXCEPT !.b1_len = Len(a.b1)], after)
      [] pc = "ins_b1_pop" ->
            Stmt([a EXCEPT !.b1 = pop_front(@)], "rep_t1_len", loc, "ins_insert")
      [] pc = "ins_t1_pop" ->
            IF Len(a.t1) > 0
            THEN Stmt([a EXCEPT !.t1 = Tail(@)], "ins_cache_rm",
                      [loc EXCEPT !.old = Head(a.t1)], after)
            ELSE Stmt(a, "ins_insert", loc, after)
      [] pc = "ins_cache_rm" ->
            Stmt([a EXCEPT !.cache = MapRemove(@, loc.old)], "ins_insert", loc, after)
      [] pc = "ins_b2_len" ->
            LET total == loc.t1_len + loc.t2_len + loc.b1_len + Len(a.b2)
            IN IF total >= 2 * a.capacity
               THEN IF total = 2 * a.capacity
                    THEN Stmt(a, "ins_b2_pop", loc, after)
                    ELSE Stmt(a, "rep_t1_len", loc, "ins_insert")
               ELSE Stmt(a, "ins_insert", loc, after)
      [] pc = "ins_b2_pop" ->
            Stmt([a EXCEPT !.b2 = pop_front(@)], "rep_t1_len", loc, "ins_insert")
      [] pc = "ins_insert" ->
            Stmt([a EXCEPT !.cache = MapInsert(@, key, value)], "ins_push", loc, after)
      [] pc = "ins_push" -> Stmt([a EXCEPT !.t1 = Append(@, key)], "ret", loc, after)

replace_stmt(a, pc, key, loc, after) ==
    CASE pc = "rep_t1_len" -> Stmt(a, "rep_p_load", [loc EXCEPT !.t1_len = Len(a.t1)], after)
      [] pc = "rep_p_load" ->
            Stmt(a,
                 IF loc.t1_len > 0
                 THEN IF loc.t1_len > a.p THEN "rep_t1_pop" ELSE "rep_in_b2"
                 ELSE "rep_t2_pop",
                 [loc EXCEPT !.p = a.p], after)
      [] pc = "rep_in_b2" ->
            Stmt(a, IF in_b2(a, key) /\ loc.t1_len = loc.p THEN "rep_t1_pop" ELSE "rep_t2_pop",
                 loc, after)
      [] pc = "rep_t1_pop" ->
            IF Len(a.t1) > 0
            THEN Stmt([a EXCEPT !.t1 = Tail(@)], "rep_cache_rm1",
                      [loc EXCEPT !.old = Head(a.t1)], after)
            ELSE Stmt(a, after, loc, "ret")
      [] pc = "rep_cache_rm1" ->
            Stmt([a EXCEPT !.cache = MapRemove(@, loc.old)], "rep_b1_push", loc, after)
      [] pc = "rep_b1_push" ->
            Stmt([a EXCEPT !.b1 = ghost_push(@, loc.old, a.capacity)], after, loc, "ret")
      [] pc = "rep_t2_pop" ->
            IF Len(a.t2) > 0
            THEN Stmt([a EXCEPT !.t2 = Tail(@)], "rep_cache_rm2",
                      [loc EXCEPT !.old = Head(a.t2)], after)
            ELSE Stmt(a, after, loc, "ret")
      [] pc = "rep_cache_rm2" ->
            Stmt([a EXCEPT !.cache = MapRemove(@, loc.old)], "rep_b2_push", loc, after)
      [] pc = "rep_b2_push" ->
            Stmt([a EXCEPT !.b2 = ghost_push(@, loc.old, a.capacity)], after, loc, "ret")

promote_to_t2_stmt(a, pc, key, loc, after) ==
    CASE pc = "pro_t1" ->
            IF SeqContains(a.t1, key)
            THEN Stmt([a EXCEPT !.t1 = RemoveAt(@, PositionOf(@, key))], "pro_push",
                      loc, after)
            ELSE Stmt(a, "pro_move", loc, after)
      [] pc = "pro_push" -> Stmt([a EXCEPT !.t2 = Append(@, key)], after, loc, "ret")
      [] pc = "pro_move" ->
            IF SeqContains(a.t2, key)
            THEN Stmt([a EXCEPT !.t2 = Append(RemoveAt(@, PositionOf(@, key)), key)],
                      after, loc, "ret")
            ELSE Stmt(a, after, loc, "ret")

get_stmt_miss_uncounted(a, pc, key, loc, after) ==
    CASE pc = "get_begin" ->
            IF key \in DOMAIN a.cache
            THEN Stmt([a EXCEPT !.hits = @ + 1], "pro_t1", loc, "get_read")
            ELSE Stmt(a, "ret", loc, after)
      [] pc = "get_read" ->
            IF key \in DOMAIN a.cache
            THEN Stmt(a, "ret", loc, after)
            ELSE Stmt(a, "ret_none", loc, after)

get_stmt(a, pc, key, loc, after) ==
    CASE pc = "get_begin" ->
            IF key \in DOMAIN a.cache
            THEN Stmt([a EXCEPT !.hits = @ + 1], "pro_t1", loc, "get_read")
            ELSE Stmt([a EXCEPT !.misses = @ + 1], "ret", loc, after)
      [] pc = "get_read" ->
            IF key \in DOMAIN a.cache
            THEN Stmt(a, "ret", loc, after)
            ELSE Stmt(a, "ret_none", loc, after)

invalidate_stmt(a, pc, key, loc, after) ==
    CASE pc = "inv_cache" -> Stmt([a EXCEPT !.cache = MapRemove(@, key)], "inv_t1", loc, after)
      [] pc = "inv_t1" -> Stmt([a EXCEPT !.t1 = retain_ne(@, key)], "inv_t2", loc, after)
      [] pc = "inv_t2" -> Stmt([a EXCEPT !.t2 = retain_ne(@, key)], "inv_b1", loc, after)
      [] pc = "inv_b1" -> Stmt([a EXCEPT !.b1 = retain_ne(@, key)], "inv_b2", loc, after)
      [] pc = "inv_b2" -> Stmt([a EXCEPT !.b2 = retain_ne(@, key)], "ret", loc, after)

PutPcs == {"put_begin", "put_in_b1", "put_in_b2"}

HandleB1HitPcs ==
    {"h1_b1_len", "h1_b2_len", "h1_p_load", "h1_p_store", "h1_retain", "hit_insert",
     "hit_push"}

HandleB2HitPcs == {"h2_b1_len", "h2_b2_len", "h2_p_load", "h2_p_store", "h2_retain"}

InsertNewPcs ==
    {"ins_t1_len", "ins_t2_len", "ins_b1_len", "ins_b1_pop", "ins_t1_pop",
     "ins_cache_rm", "ins_b2_len", "ins_b2_pop", "ins_insert", "ins_push"}

ReplacePcs ==
    {"rep_t1_len", "rep_p_load", "rep_in_b2", "rep_t1_pop", "rep_cache_rm1",
     "rep_b1_push", "rep_t2_pop", "rep_cache_rm2", "rep_b2_push"}

PromotePcs == {"pro_t1", "pro_push", "pro_move"}

GetPcs == {"get_begin", "get_read"}

InvalidatePcs == {"inv_cache", "inv_t1", "inv_t2", "inv_b1", "inv_b2"}

\* thread t runs the statement st leads to
TaskDo(t, st) ==
    /\ lock_free_for(tasks, t)
    /\ arc' = st.a
    /\ tasks' = [tasks EXCEPT !.pc[t] = st.pc, !.loc[t] = st.loc, !.after[t] = st.after]
    /\ UNCHANGED <<buddy, buddy_obs, hybrid, hybrid_obs, arc_obs, watcher, watcher_obs,
                   fs, fs_obs, threads, driver, procs>>

\* thread t calls put, get or invalidate
TaskCall(t, op, key, value) ==
    /\ tasks.pc[t] = "idle"
    /\ tasks' = [tasks EXCEPT
           !.pc[t] = CASE op = "put" -> "put_begin"
                       [] op = "get" -> "get_begin"
                       [] OTHER -> "inv_cache",
           !.op[t] = op, !.key[t] = key, !.value[t] = value,
           !.calls = @ + 1]
    /\ UNCHANGED <<buddy, buddy_obs, hybrid, hybrid_obs, arc, arc_obs, watcher,
                   watcher_obs, fs, fs_obs, threads, driver, procs>>

TaskPut(t) ==
    /\ tasks.pc[t] \in PutPcs
    /\ TaskDo(t, put_stmt(arc, tasks.pc[t], tasks.key[t], tasks.value[t],
                          tasks.loc[t], tasks.after[t]))

TaskHandleB1Hit(t) ==
    /\ tasks.pc[t] \in HandleB1HitPcs
    /\ TaskDo(t, handle_b1_hit_stmt(arc, tasks.pc[t], tasks.key[t], tasks.value[t],
                                    tasks.loc[t], tasks.after[t]))

TaskHandleB2Hit(t) ==
    /\ tasks.pc[t] \in HandleB2HitPcs
    /\ TaskDo(t, handle_b2_hit_stmt(arc, tasks.pc[t], tasks.key[t], tasks.value[t],
                                    tasks.loc[t], tasks.after[t]))

TaskInsertNew(t) ==
    /\ tasks.pc[t] \in InsertNewPcs
    /\ TaskDo(t, insert_new_stmt(arc, tasks.pc[t], tasks.key[t], tasks.value[t],
                                 tasks.loc[t], tasks.after[t]))

TaskReplace(t) ==
    /\ tasks.pc[t] \in ReplacePcs
    /\ TaskDo(t, replace_stmt(arc, tasks.pc[t], tasks.key[t], tasks.loc[t],
                              tasks.after[t]))

TaskPromote(t) ==
    /\ tasks.pc[t] \in PromotePcs
    /\ TaskDo(t, promote_to_t2_stmt(arc, tasks.pc[t], tasks.key[t], tasks.loc[t],
                                    tasks.after[t]))

TaskGet(t) ==
    /\ tasks.pc[t] \in GetPcs
    /\ TaskDo(t, get_stmt(arc, tasks.pc[t], tasks.key[t], tasks.loc[t], tasks.after[t]))

TaskInvalidate(t) ==
    /\ tasks.pc[t] \in InvalidatePcs
    /\ TaskDo(t, invalidate_stmt(arc, tasks.pc[t], tasks.key[t], tasks.loc[t],
                                 tasks.after[t]))

\* the call of thread t returns
TaskReturn(t) ==
    /\ tasks.pc[t] \in {"ret", "ret_none"}
    /\ tasks' = [tasks EXCEPT
           !.pc[t] = "idle", !.op[t] = "none", !.key[t] = 0, !.value[t] = 0,
           !.after[t] = "ret", !.loc[t] = LocNew,
           !.gets_done = IF tasks.op[t] = "get" THEN @ + 1 ELSE @]
    /\ UNCHANGED <<buddy, buddy_obs, hybrid, hybrid_obs, arc, arc_obs, watcher,
                   watcher_obs, fs, fs_obs, threads, driver, procs>>

\* hit_rate as the fraction <<numerator, denominator>>; 0.0 is <<0, 1>>
hit_rate(a) ==
    IF a.hits + a.misses = 0 THEN <<0, 1>> ELSE <<a.hits, a.hits + a.misses>>

(***************************************************************************)
(* FileWatcher                                                             *)
(*   event_queue is a VecDeque (front = position 1), watches a BTreeMap    *)
(*   wd -> WatchEntry.  A path is the sequence of its characters.  An      *)
(*   event_type is the enum's discriminant (Create = 1, Modify = 2,        *)
(*   Delete = 4, Access = 8).  new() sets max_events to 1024; the model    *)
(*   constructs the watcher with the queue capacity QueueCapacity.         *)
(***************************************************************************)
Create == 1

Modify == 2

Delete == 4

Access == 8

FileWatcherNew(max_events) ==
    [event_queue |-> <<>>, watches |-> EmptyMap, next_wd |-> 1,
     max_events |-> max_events]

\* str::starts_with
starts_with(path, prefix) ==
    Len(prefix) <= Len(path) /\ SubSeq(path, 1, Len(prefix)) = prefix

\* mask & event_bit != 0, for an event_bit with a single bit set
mask_has(mask, event_bit) == (mask \div event_bit) % 2 = 1

\* check_watch: the watches whose path is a prefix of `path`
WatchesPrefixing(wt, path) == {wd \in DOMAIN wt : starts_with(path, wt[wd].path)}

\* check_watch returns the mask of the first such entry in key order
check_watch_some(wt, path) == WatchesPrefixing(wt, path) # {}

check_watch_mask(wt, path) ==
    LET m == WatchesPrefixing(wt, path)
    IN wt[CHOOSE wd \in m : \A wd2 \in m : wd <= wd2].mask

\* VecDeque::pop_back in place of pop_front
enqueue_drop_newest(queue, max_events, event) ==
    IF Len(queue) >= max_events
    THEN Append(SubSeq(queue, 1, Len(queue) - 1), event)
    ELSE Append(queue, event)

\* the queue after `if queue.len() >= max_events { pop_front() }; push_back(event)`
enqueue(queue, max_events, event) ==
    IF Len(queue) >= max_events THEN Append(pop_front(queue), event)
    ELSE Append(queue, event)

trigger_passes(wt, event) ==
    /\ check_watch_some(wt, event.path)
    /\ mask_has(check_watch_mask(wt, event.path), event.event_type)

\* history: some registered watch has a prefix of the event's path and the event's bit
SomeWatchMatches(wt, event) ==
    \E wd \in DOMAIN wt :
        starts_with(event.path, wt[wd].path) /\ mask_has(wt[wd].mask, event.event_type)

\* history: the registered watches with a prefix of the event's path and the event's bit
WatchesMatching(wt, event) ==
    {wd \in DOMAIN wt :
        starts_with(event.path, wt[wd].path) /\ mask_has(wt[wd].mask, event.event_type)}

AddWatch(path, mask) ==
    /\ watcher' = [watcher EXCEPT
           !.next_wd = @ + 1,
           !.watches = MapInsert(@, watcher.next_wd,
                                 [wd |-> watcher.next_wd, path |-> path, mask |-> mask])]
    /\ watcher_obs' = [watcher_obs EXCEPT !.op = "add_watch", !.ret = <<>>,
                                          !.arg = watcher.next_wd,
                                          !.enqueued = FALSE, !.matched = FALSE,
                                          !.nmatched = 0]
    /\ UNCHANGED <<buddy, buddy_obs, hybrid, hybrid_obs, arc, arc_obs, fs, fs_obs, threads, driver, tasks, procs>>

\* BTreeMap::clear in place of remove(&wd)
remove_watch_table_clear(wt, wd) == IF wd \in DOMAIN wt THEN EmptyMap ELSE wt

\* self.watches.write().remove(&wd)
remove_watch_table(wt, wd) == MapRemove(wt, wd)

RemoveWatch(wd) ==
    /\ watcher' = [watcher EXCEPT !.watches = remove_watch_table(@, wd)]
    /\ watcher_obs' = [watcher_obs EXCEPT
           !.op = IF wd \in DOMAIN watcher.watches THEN "remove_watch" ELSE "NotFound",
           !.ret = <<>>, !.arg = wd, !.enqueued = FALSE, !.matched = FALSE,
           !.nmatched = 0]
    /\ UNCHANGED <<buddy, buddy_obs, hybrid, hybrid_obs, arc, arc_obs, fs, fs_obs, threads, driver, tasks, procs>>

Trigger(event) ==
    /\ IF trigger_passes(watcher.watches, event)
       THEN /\ watcher' = [watcher EXCEPT
                   !.event_queue = enqueue(@, watcher.max_events, event)]
            /\ watcher_obs' = [watcher_obs EXCEPT
                   !.op = "trigger", !.ret = <<>>, !.arg = 0, !.enqueued = TRUE,
                   !.matched = SomeWatchMatches(watcher.watches, event),
                   !.nmatched = Cardinality(WatchesMatching(watcher.watches, event)),
                   !.accepted = @ + 1]
       ELSE /\ watcher' = watcher
            /\ watcher_obs' = [watcher_obs EXCEPT
                   !.op = "trigger", !.ret = <<>>, !.arg = 0, !.enqueued = FALSE,
                   !.matched = SomeWatchMatches(watcher.watches, event),
                   !.nmatched = Cardinality(WatchesMatching(watcher.watches, event))]
    /\ UNCHANGED <<buddy, buddy_obs, hybrid, hybrid_obs, arc, arc_obs, fs, fs_obs, threads, driver, tasks, procs>>

TriggerUnchecked(event) ==
    /\ watcher' = [watcher EXCEPT !.event_queue = enqueue(@, watcher.max_events, event)]
    /\ watcher_obs' = [watcher_obs EXCEPT
           !.op = "trigger_unchecked", !.ret = <<>>, !.arg = 0, !.enqueued = TRUE,
           !.matched = SomeWatchMatches(watcher.watches, event),
           !.nmatched = Cardinality(WatchesMatching(watcher.watches, event)),
           !.accepted = @ + 1]
    /\ UNCHANGED <<buddy, buddy_obs, hybrid, hybrid_obs, arc, arc_obs, fs, fs_obs, threads, driver, tasks, procs>>

\* read_events: count = max_count.min(queue.len()); queue.drain(..count).collect()
read_events_count(queue, max_count) == Min(max_count, Len(queue))

read_events_ret(queue, max_count) == SubSeq(queue, 1, read_events_count(queue, max_count))

\* the queue left as it was (the events copied out, not drained)
read_events_rest_copy(queue, max_count) == queue

read_events_rest(queue, max_count) ==
    SubSeq(queue, read_events_count(queue, max_count) + 1, Len(queue))

ReadEvents(max_count) ==
    /\ watcher' = [watcher EXCEPT !.event_queue = read_events_rest(@, max_count)]
    /\ watcher_obs' = [watcher_obs EXCEPT
           !.op = "read_events", !.arg = max_count, !.enqueued = FALSE, !.matched = FALSE,
           !.nmatched = 0,
           !.ret = read_events_ret(watcher.event_queue, max_count),
           !.reads = TRUE,
           !.returned = @ \cup {read_events_ret(watcher.event_queue, max_count)[i].timestamp :
                                   i \in 1..read_events_count(watcher.event_queue, max_count)}]
    /\ UNCHANGED <<buddy, buddy_obs, hybrid, hybrid_obs, arc, arc_obs, fs, fs_obs, threads, driver, tasks, procs>>

pending_count(wa) == Len(wa.event_queue)

(***************************************************************************)
(* trigger run by several threads, one step per lock acquisition.          *)
(*   check_watch takes the watch table in read mode and releases it when   *)
(*   it returns; trigger takes the queue in write mode afterwards.         *)
(*   procs.notify.thr[t] is thread t's position (pc) and its event;        *)
(*   procs.notify.stale is history: an event was appended while no         *)
(*   registered watch matched it.                                          *)
(***************************************************************************)
NotifyProcsNew ==
    [thr |-> [t \in Procs |-> [pc |-> "idle", event |-> <<>>]], calls |-> 0,
     stale |-> FALSE]

\* the position of thread pr after the statement at pr.pc, and the queue
trigger_stmt(wa, pr) ==
    CASE pr.pc = "check_watch" ->
            [wa |-> wa,
             pc |-> IF trigger_passes(wa.watches, pr.event) THEN "enqueue" ELSE "ret"]
      [] pr.pc = "enqueue" ->
            [wa |-> [wa EXCEPT !.event_queue = enqueue(@, wa.max_events, pr.event)],
             pc |-> "ret"]

\* thread t enters trigger(event)
TriggerProcCall(t, event) ==
    /\ procs.notify.thr[t].pc = "idle"
    /\ procs' = [procs EXCEPT !.notify.thr[t] = [pc |-> "check_watch", event |-> event],
                              !.notify.calls = @ + 1]
    /\ UNCHANGED <<buddy, buddy_obs, hybrid, hybrid_obs, arc, arc_obs, watcher,
                   watcher_obs, fs, fs_obs, threads, driver, tasks>>

\* thread t runs its next statement
TriggerProcDo(t) ==
    /\ procs.notify.thr[t].pc \in {"check_watch", "enqueue"}
    /\ watcher' = trigger_stmt(watcher, procs.notify.thr[t]).wa
    /\ procs' = [procs EXCEPT
           !.notify.thr[t].pc = trigger_stmt(watcher, procs.notify.thr[t]).pc,
           !.notify.stale =
               @ \/ /\ procs.notify.thr[t].pc = "enqueue"
                    /\ ~SomeWatchMatches(watcher.watches, procs.notify.thr[t].event)]
    /\ UNCHANGED <<buddy, buddy_obs, hybrid, hybrid_obs, arc, arc_obs, watcher_obs,
                   fs, fs_obs, threads, driver, tasks>>

\* trigger returns
TriggerProcReturn(t) ==
    /\ procs.notify.thr[t].pc = "ret"
    /\ procs' = [procs EXCEPT !.notify.thr[t] = [pc |-> "idle", event |-> <<>>]]
    /\ UNCHANGED <<buddy, buddy_obs, hybrid, hybrid_obs, arc, arc_obs, watcher,
                   watcher_obs, fs, fs_obs, threads, driver, tasks>>

(***************************************************************************)
(* add_watch run by several threads, one step per statement.               *)
(*   threads.pc[t] is the statement thread t is at; threads.wd[t] is its   *)
(*   local `wd`.  The guard `next_wd` (the write half of the RwLock) is    *)
(*   taken at line 41 and dropped when the function returns, so a thread   *)
(*   holds it exactly while its pc is not "idle".  WatchDescriptor is i32: *)
(*   `*next_wd += 1` at i32::MAX wraps to i32::MIN in a build without      *)
(*   overflow checks and panics (with the guard held) in one with them.    *)
(*   threads.first / last / prev_max / any are history: the first and the  *)
(*   last value add_watch returned, the largest value returned before the  *)
(*   last one, and whether add_watch has returned at all.                  *)
(***************************************************************************)
I32_MAX == 2147483647

I32_MIN == -I32_MAX - 1

Threads == 1..NumThreads

ThreadsNew ==
    [pc |-> [t \in Threads |-> "idle"], wd |-> [t \in Threads |-> 0],
     calls |-> 0, first |-> 0, last |-> 0, prev_max |-> 0, any |-> FALSE]

\* no thread holds the write guard of next_wd
next_wd_lock_free(th) == \A t \in Threads : th.pc[t] = "idle"

\* i32 `+= 1` without overflow checks
wrapping_incr(n) == IF n = I32_MAX THEN I32_MIN ELSE n + 1

\* history: add_watch returned wd
ObsWd(th, wd) ==
    [th EXCEPT !.first = IF th.any THEN @ ELSE wd,
               !.prev_max = IF th.any THEN Max(@, th.last) ELSE @,
               !.last = wd,
               !.any = TRUE]

\* let mut next_wd = self.next_wd.write();
AddWatchLock(t) ==
    /\ threads.pc[t] = "idle"
    /\ next_wd_lock_free(threads)
    /\ threads' = [threads EXCEPT !.pc[t] = "read", !.calls = @ + 1]
    /\ UNCHANGED <<buddy, buddy_obs, hybrid, hybrid_obs, arc, arc_obs, watcher,
                   watcher_obs, fs, fs_obs, driver, tasks, procs>>

\* let wd = *next_wd;
AddWatchRead(t) ==
    /\ threads.pc[t] = "read"
    /\ threads' = [threads EXCEPT !.pc[t] = "incr", !.wd[t] = watcher.next_wd]
    /\ UNCHANGED <<buddy, buddy_obs, hybrid, hybrid_obs, arc, arc_obs, watcher,
                   watcher_obs, fs, fs_obs, driver, tasks, procs>>

\* *next_wd += 1;
AddWatchIncr(t) ==
    /\ threads.pc[t] = "incr"
    /\ watcher' = [watcher EXCEPT !.next_wd = wrapping_incr(@)]
    /\ threads' = [threads EXCEPT !.pc[t] = "insert"]
    /\ UNCHANGED <<buddy, buddy_obs, hybrid, hybrid_obs, arc, arc_obs,
                   watcher_obs, fs, fs_obs, driver, tasks, procs>>

\* *next_wd += 1; with overflow checks: the thread panics holding the guard
AddWatchIncrPanic(t) ==
    /\ threads.pc[t] = "incr"
    /\ watcher.next_wd = I32_MAX
    /\ threads' = [threads EXCEPT !.pc[t] = "panicked"]
    /\ UNCHANGED <<buddy, buddy_obs, hybrid, hybrid_obs, arc, arc_obs, watcher,
                   watcher_obs, fs, fs_obs, driver, tasks, procs>>

\* self.watches.write().insert(wd, entry);
AddWatchInsert(t, path, mask) ==
    /\ threads.pc[t] = "insert"
    /\ watcher' = [watcher EXCEPT
           !.watches = MapInsert(@, threads.wd[t],
                                 [wd |-> threads.wd[t], path |-> path, mask |-> mask])]
    /\ threads' = [threads EXCEPT !.pc[t] = "return"]
    /\ UNCHANGED <<buddy, buddy_obs, hybrid, hybrid_obs, arc, arc_obs,
                   watcher_obs, fs, fs_obs, driver, tasks, procs>>

\* Ok(wd), dropping the guard
AddWatchReturn(t) ==
    /\ threads.pc[t] = "return"
    /\ threads' = [ObsWd(threads, threads.wd[t]) EXCEPT !.pc[t] = "idle"]
    /\ UNCHANGED <<buddy, buddy_obs, hybrid, hybrid_obs, arc, arc_obs, watcher,
                   watcher_obs, fs, fs_obs, driver, tasks, procs>>

\* k times in a row by one thread, no other call in progress:
\* wd = add_watch(path, mask); remove_watch(wd).  Every call returns the counter
\* and leaves it one higher (k is such that it does not overflow).
AddRemovePairs(k) ==
    /\ k >= 2
    /\ \A t \in Threads : threads.pc[t] = "idle"
    /\ watcher.next_wd > 0
    /\ watcher.next_wd + k <= I32_MAX
    /\ watcher' = [watcher EXCEPT !.next_wd = @ + k]
    /\ threads' = [threads EXCEPT
           !.first = IF threads.any THEN @ ELSE watcher.next_wd,
           !.prev_max = watcher.next_wd + k - 2,
           !.last = watcher.next_wd + k - 1,
           !.any = TRUE]
    /\ UNCHANGED <<buddy, buddy_obs, hybrid, hybrid_obs, arc, arc_obs,
                   watcher_obs, fs, fs_obs, driver, tasks, procs>>

(***************************************************************************)
(* Unfound-FS hook layer (unfound-fs/src/lib.rs, fs_hooks.rs and the        *)
(* #[unfound_hook] attribute of unfound-macros).                           *)
(*   fs.vfs      the underlying VFS: path -> [kind, data], kind "none",    *)
(*               "file" or "dir".  The VFS is a collaborator of the hook   *)
(*               layer; its calls are modelled from the interface the      *)
(*               specification states for it (existence, byte content,     *)
(*               success or failure), and every call may also fail with    *)
(*               an I/O error that leaves the VFS as it was.               *)
(*   fs.cache    UCACHE = ARCache<String, Vec<u8>> built by init           *)
(*   fs.watcher  the bus of unotify::init / get_watcher, the FileWatcher   *)
(*               of xmodules/unotify, whose trigger appends every event    *)
(*   fs_obs      history of the last hook call: its name, its path and     *)
(*               second argument (data or new path), its result and the    *)
(*               events it passed to trigger, in order                     *)
(* fs is the state unfound_fs::init(cache_pages) leaves.                   *)
(***************************************************************************)
\* max_events of xmodules FileWatcher::new
BUS_MAX_EVENTS == 1024

\* NotifyEvent::new(event_type, path): the timestamp is 0
NotifyEventNew(event_type, path) ==
    [event_type |-> event_type, path |-> path, timestamp |-> 0]

\* the event appended a second time
bus_trigger_twice(w, event) ==
    [w EXCEPT !.event_queue = Append(Append(@, event), event)]

\* xmodules FileWatcher::trigger: drop the oldest event of a full queue, append
bus_trigger(w, event) ==
    [w EXCEPT !.event_queue =
        IF Len(@) >= w.max_events THEN Append(pop_front(@), event) ELSE Append(@, event)]

VfsNone == [kind |-> "none", data |-> ""]

VfsFile(data) == [kind |-> "file", data |-> data]

VfsDir == [kind |-> "dir", data |-> ""]

\* metadata(path).is_ok()
vfs_exists(v, path) == v[path].kind # "none"

\* File::open with read(true): the path must be a file
vfs_open_read_ok(v, path) == v[path].kind = "file"

\* File::open with write, create and truncate: the file is created empty or cut
\* to length 0; a directory cannot be opened for writing
vfs_open_create_ok(v, path) == v[path].kind # "dir"

vfs_open_create(v, path) == [v EXCEPT ![path] = VfsFile("")]

\* write_all(data) on the file just opened
vfs_write_all(v, path, data) == [v EXCEPT ![path] = VfsFile(data)]

\* remove_file: the path must be a file
vfs_remove_file_ok(v, path) == v[path].kind = "file"

\* create_dir: the name must be free (AlreadyExists otherwise)
vfs_create_dir_ok(v, path) == v[path].kind = "none"

\* remove_dir: the path must be a directory
vfs_remove_dir_ok(v, path) == v[path].kind = "dir"

vfs_remove(v, path) == [v EXCEPT ![path] = VfsNone]

\* rename(old, new): old must exist; new is free or of old's kind and is replaced
vfs_rename_ok(v, old, new) ==
    /\ v[old].kind # "none"
    /\ old # new
    /\ v[new].kind \in {"none", v[old].kind}

vfs_rename(v, old, new) == [v EXCEPT ![new] = v[old], ![old] = VfsNone]

\* the state unfound_fs::init(cache_pages) leaves over a VFS v
FsNew(v, cache_pages) ==
    [vfs |-> v,
     cache |-> ARCacheNew(cache_pages),
     watcher |-> [event_queue |-> <<>>, max_events |-> BUS_MAX_EVENTS]]

FsObsNew == [op |-> "init", path |-> "", arg |-> "", ret |-> [tag |-> "Ok", data |-> ""],
             emitted |-> <<>>]

\* watcher.trigger(e) for each e of events, in order
RECURSIVE bus_trigger_all(_, _)
bus_trigger_all(w, events) ==
    IF events = <<>> THEN w
    ELSE bus_trigger_all(bus_trigger(w, Head(events)), Tail(events))

\* a hook call op(path, arg) that leaves the VFS v and the cache a, has passed
\* `events` to trigger, and returns ret
FsStepArg(op, path, arg, v, a, events, ret) ==
    /\ fs' = [vfs |-> v, cache |-> a, watcher |-> bus_trigger_all(fs.watcher, events)]
    /\ fs_obs' = [op |-> op, path |-> path, arg |-> arg, ret |-> ret, emitted |-> events]
    /\ UNCHANGED <<buddy, buddy_obs, hybrid, hybrid_obs, arc, arc_obs, watcher,
                   watcher_obs, threads, driver, tasks, procs>>

FsStep(op, path, v, a, events, ret) == FsStepArg(op, path, "", v, a, events, ret)

FsOk(data) == [tag |-> "Ok", data |-> data]

FsErr == [tag |-> "Err", data |-> ""]

\* fops_ext::open under #[unfound_hook(event = "Access")]: the attribute puts the
\* trigger in front of the body, then runs File::open(path, opts).  opts is
\* "read" (read only) or "create" (write, create, truncate); dev = "fail_first"
\* is an I/O error of the VFS call.
FsOpen(path, opts, dev) ==
    LET ev == <<NotifyEventNew(Access, path)>>
        ok == /\ dev = "ok"
              /\ IF opts = "read" THEN vfs_open_read_ok(fs.vfs, path)
                 ELSE vfs_open_create_ok(fs.vfs, path)
    IN IF ok
       THEN FsStep("open", path,
                   IF opts = "read" THEN fs.vfs ELSE vfs_open_create(fs.vfs, path),
                   fs.cache, ev, FsOk(""))
       ELSE FsStep("open", path, fs.vfs, fs.cache, ev, FsErr)

\* fops_ext::read_file
FsReadFile(path, dev) ==
    LET looked == get(fs.cache, path)
        hit == get_result(fs.cache, path)
        ev == <<NotifyEventNew(Access, path)>>
    IN IF hit.tag = "Some"
       THEN FsStep("read_file", path, fs.vfs, looked, ev, FsOk(hit.value))
       ELSE IF dev = "fail_first" \/ ~vfs_open_read_ok(fs.vfs, path)
       THEN FsStep("read_file", path, fs.vfs, looked, <<>>, FsErr)
       ELSE IF dev = "fail_second"
       THEN FsStep("read_file", path, fs.vfs, looked, <<>>, FsErr)
       ELSE FsStep("read_file", path, fs.vfs,
                   put(looked, path, fs.vfs[path].data), ev,
                   FsOk(fs.vfs[path].data))

\* fops_ext::write_file
FsWriteFile(path, data, dev) ==
    IF dev = "fail_first" \/ ~vfs_open_create_ok(fs.vfs, path)
    THEN FsStepArg("write_file", path, data, fs.vfs, fs.cache, <<>>, FsErr)
    ELSE IF dev = "fail_second"
    THEN FsStepArg("write_file", path, data, vfs_open_create(fs.vfs, path), fs.cache, <<>>, FsErr)
    ELSE FsStepArg("write_file", path, data,
                vfs_write_all(vfs_open_create(fs.vfs, path), path, data),
                put(fs.cache, path, data),
                <<NotifyEventNew(Modify, path)>>, FsOk(""))

\* api_ext::create_dir
ApiCreateDir(path, dev) ==
    IF dev = "ok" /\ vfs_create_dir_ok(fs.vfs, path)
    THEN FsStep("create_dir", path, [fs.vfs EXCEPT ![path] = VfsDir], fs.cache,
                <<NotifyEventNew(Create, path)>>, FsOk(""))
    ELSE FsStep("create_dir", path, fs.vfs, fs.cache, <<>>, FsErr)

\* api_ext::remove_file
ApiRemoveFile(path, dev) ==
    IF dev = "ok" /\ vfs_remove_file_ok(fs.vfs, path)
    THEN FsStep("remove_file", path, vfs_remove(fs.vfs, path),
                invalidate(fs.cache, path),
                <<NotifyEventNew(Delete, path)>>, FsOk(""))
    ELSE FsStep("remove_file", path, fs.vfs, fs.cache, <<>>, FsErr)

\* api_ext::remove_dir
ApiRemoveDir(path, dev) ==
    IF dev = "ok" /\ vfs_remove_dir_ok(fs.vfs, path)
    THEN FsStep("remove_dir", path, vfs_remove(fs.vfs, path), fs.cache,
                <<NotifyEventNew(Delete, path)>>, FsOk(""))
    ELSE FsStep("remove_dir", path, fs.vfs, fs.cache, <<>>, FsErr)

\* fs_hooks::read_file_with_notify: trigger_event(Access) comes first, then
\* File::open and read
ReadFileWithNotify(path, dev) ==
    LET ev == <<NotifyEventNew(Access, path)>>
    IN IF dev = "ok" /\ vfs_open_read_ok(fs.vfs, path)
       THEN FsStep("read_file_with_notify", path, fs.vfs, fs.cache, ev,
                   FsOk(fs.vfs[path].data))
       ELSE FsStep("read_file_with_notify", path, fs.vfs, fs.cache, ev, FsErr)

\* the events write_file_with_notify triggers after a successful write
write_events(is_new_file, path) ==
    IF is_new_file
    THEN <<NotifyEventNew(Create, path), NotifyEventNew(Modify, path)>>
    ELSE <<NotifyEventNew(Modify, path)>>

\* fs_hooks::write_file_with_notify
WriteFileWithNotify(path, data, dev) ==
    LET is_new_file == ~vfs_exists(fs.vfs, path)
    IN IF dev = "fail_first" \/ ~vfs_open_create_ok(fs.vfs, path)
       THEN FsStepArg("write_file_with_notify", path, data, fs.vfs, fs.cache, <<>>, FsErr)
       ELSE IF dev = "fail_second"
       THEN FsStepArg("write_file_with_notify", path, data, vfs_open_create(fs.vfs, path),
                   fs.cache, <<>>, FsErr)
       ELSE FsStepArg("write_file_with_notify", path, data,
                   vfs_write_all(vfs_open_create(fs.vfs, path), path, data),
                   fs.cache, write_events(is_new_file, path), FsOk(""))

\* fs_hooks::create_file_with_notify: File::create opens with create and truncate
CreateFileWithNotify(path, dev) ==
    IF dev = "ok" /\ vfs_open_create_ok(fs.vfs, path)
    THEN FsStep("create_file_with_notify", path, vfs_open_create(fs.vfs, path),
                fs.cache, <<NotifyEventNew(Create, path)>>, FsOk(""))
    ELSE FsStep("create_file_with_notify", path, fs.vfs, fs.cache, <<>>, FsErr)

\* fs_hooks::remove_file_with_notify
RemoveFileWithNotify(path, dev) ==
    IF dev = "ok" /\ vfs_remove_file_ok(fs.vfs, path)
    THEN FsStep("remove_file_with_notify", path, vfs_remove(fs.vfs, path), fs.cache,
                <<NotifyEventNew(Delete, path)>>, FsOk(""))
    ELSE FsStep("remove_file_with_notify", path, fs.vfs, fs.cache, <<>>, FsErr)

\* fs_hooks::create_dir_with_notify
CreateDirWithNotify(path, dev) ==
    IF dev = "ok" /\ vfs_create_dir_ok(fs.vfs, path)
    THEN FsStep("create_dir_with_notify", path, [fs.vfs EXCEPT ![path] = VfsDir],
                fs.cache, <<NotifyEventNew(Create, path)>>, FsOk(""))
    ELSE FsStep("create_dir_with_notify", path, fs.vfs, fs.cache, <<>>, FsErr)

\* fs_hooks::remove_dir_with_notify
RemoveDirWithNotify(path, dev) ==
    IF dev = "ok" /\ vfs_remove_dir_ok(fs.vfs, path)
    THEN FsStep("remove_dir_with_notify", path, vfs_remove(fs.vfs, path), fs.cache,
                <<NotifyEventNew(Delete, path)>>, FsOk(""))
    ELSE FsStep("remove_dir_with_notify", path, fs.vfs, fs.cache, <<>>, FsErr)

\* fs_hooks::rename_with_notify
RenameWithNotify(old_path, new_path, dev) ==
    IF dev = "ok" /\ vfs_rename_ok(fs.vfs, old_path, new_path)
    THEN FsStepArg("rename_with_notify", old_path, new_path,
                vfs_rename(fs.vfs, old_path, new_path), fs.cache,
                <<NotifyEventNew(Delete, old_path), NotifyEventNew(Create, new_path)>>,
                FsOk(""))
    ELSE FsStepArg("rename_with_notify", old_path, new_path, fs.vfs, fs.cache, <<>>,
                   FsErr)

\* check_events of the functional test: count = pending_count(); if count > 0,
\* read_events(count)
CheckEvents ==
    /\ Len(fs.watcher.event_queue) > 0
    /\ fs' = [fs EXCEPT !.watcher.event_queue =
                 read_events_rest(@, Len(fs.watcher.event_queue))]
    /\ fs_obs' = [op |-> "check_events", path |-> "", arg |-> "", ret |-> FsOk(""),
                  emitted |-> <<>>]
    /\ UNCHANGED <<buddy, buddy_obs, hybrid, hybrid_obs, arc, arc_obs, watcher,
                   watcher_obs, threads, driver, tasks, procs>>

(***************************************************************************)
(* Inputs of the allocator calls                                           *)
(***************************************************************************)
\* region starts: the page-aligned start of the spec's scenario and an unaligned one
RegionStarts == {65536, 65537}

BuddyRegionSizes == {k * PAGE_SIZE : k \in 0..MaxBuddyPages}

AlignInputs == {2048, PAGE_SIZE, 2 * PAGE_SIZE, 3 * PAGE_SIZE}

\* page starts of the region, one address below it, the address past its end and an
\* address that is not page-aligned
AddrInputs(base, total_pages) ==
    {base + k * PAGE_SIZE : k \in (0 - 1)..total_pages} \cup {base + 1}

\* the start of the spec's scenario (0x10000)
HybridRegionStart == 16 * PAGE_SIZE

HybridRegionSizes ==
    {0, 2 * THRESHOLD_PAGES * PAGE_SIZE, MaxHybridPages * PAGE_SIZE}

\* small requests, the threshold itself and a request above it
HybridReqPages == {0, 1, 2, THRESHOLD_PAGES, THRESHOLD_PAGES + 1}

\* the region's first pages, the page at the threshold, its last page, the
\* addresses just outside it and an address that is not page-aligned
HybridAddrInputs(base, total_pages) ==
    {base + k * PAGE_SIZE :
        k \in {0 - 1, 0, 1, THRESHOLD_PAGES, total_pages - 1, total_pages}}
    \cup {base + 1}

BuddyReqPages == {0, 1, 2, 3, MaxBuddyPages, MaxBuddyPages + 1}

ObsNew == [ret |-> Ret("None", 0), live |-> {}, reissued |-> FALSE]

\* the hybrid allocator's history also counts the successful allocations
HybridObsNew == [ret |-> Ret("None", 0), live |-> {}, reissued |-> FALSE, issued |-> 0]

\* "/a", "/a/x", "/b" and "/" as character sequences
PathA == <<"/", "a">>

PathAX == <<"/", "a", "/", "x">>

PathB == <<"/", "b">>

PathRoot == <<"/">>

\* (path, mask) pairs given to add_watch
WatchInputs ==
    {<<PathA, Modify + Create>>, <<PathA, Create>>, <<PathRoot, Delete + Access>>}

\* (event_type, path) pairs given to NotifyEvent::new
EventInputs ==
    {<<Modify, PathAX>>, <<Access, PathAX>>, <<Create, PathAX>>, <<Delete, PathB>>}

\* the event a caller passes to trigger: the caller stamps it with the number of
\* the enqueue it would be, so that the events of a queue are told apart
StampedEvent(ei) ==
    [event_type |-> ei[1], path |-> ei[2], timestamp |-> watcher_obs.accepted + 1]

ReadCounts == {0, 1, 2, QueueCapacity + 7}

\* history of the watcher: the last call (op, the events a read returned, the wd
\* of add_watch / remove_watch or the max_count of read_events, whether a trigger
\* enqueued, whether some watch matched its event and how many did), the number
\* of enqueues so far, whether read_events has
\* been called, and the stamps of all events read_events has returned
WatcherObsNew ==
    [op |-> "new", ret |-> <<>>, arg |-> 0, enqueued |-> FALSE, matched |-> FALSE,
     nmatched |-> 0, accepted |-> 0, reads |-> FALSE, returned |-> {}]

\* paths and contents given to the hooks; the VFS starts with no node
FsPaths == {"/f", "/g"}

FsData == {"hi", "yo"}

\* the path the concurrent calls work on
HookPath == "/f"

VfsEmpty == [path \in FsPaths |-> VfsNone]

\* outcome of the VFS calls of one hook call: no I/O error, an I/O error in the
\* first call (open, create, remove, rename), or one in the second (read, write)
DevOutcomes == {"ok", "fail_first", "fail_second"}

(***************************************************************************)
(* read_file, write_file and remove_file of lib.rs run by several threads, *)
(* one step per call into the VFS, the cache or the watcher.  Each cache   *)
(* call (get, put, invalidate) is taken as one step.                       *)
(*   procs.hooks.thr[t] is thread t's position (pc), its call (op, path,   *)
(*   data) and the local `buf` of read_file.                               *)
(***************************************************************************)
HookProcNew == [pc |-> "idle", op |-> "none", path |-> "", data |-> "", buf |-> ""]

HookProcsNew == [thr |-> [t \in Procs |-> HookProcNew], calls |-> 0]

HStep(f, pr) == [fs |-> f, pr |-> pr]

\* fops_ext::read_file
read_file_stmt(f, pr) ==
    CASE pr.pc = "r_get" ->
            IF get_result(f.cache, pr.path).tag = "Some"
            THEN HStep([f EXCEPT !.cache = get(@, pr.path)],
                       [pr EXCEPT !.pc = "r_trigger",
                                  !.buf = get_result(f.cache, pr.path).value])
            ELSE HStep([f EXCEPT !.cache = get(@, pr.path)], [pr EXCEPT !.pc = "r_read"])
      [] pr.pc = "r_read" ->
            IF vfs_open_read_ok(f.vfs, pr.path)
            THEN HStep(f, [pr EXCEPT !.pc = "r_put", !.buf = f.vfs[pr.path].data])
            ELSE HStep(f, [pr EXCEPT !.pc = "ret"])
      [] pr.pc = "r_put" ->
            HStep([f EXCEPT !.cache = put(@, pr.path, pr.buf)],
                  [pr EXCEPT !.pc = "r_trigger"])
      [] pr.pc = "r_trigger" ->
            HStep([f EXCEPT !.watcher = bus_trigger(@, NotifyEventNew(Access, pr.path))],
                  [pr EXCEPT !.pc = "ret"])

\* fops_ext::write_file
write_file_stmt(f, pr) ==
    CASE pr.pc = "w_open" ->
            IF vfs_open_create_ok(f.vfs, pr.path)
            THEN HStep([f EXCEPT !.vfs = vfs_open_create(@, pr.path)],
                       [pr EXCEPT !.pc = "w_write"])
            ELSE HStep(f, [pr EXCEPT !.pc = "ret"])
      [] pr.pc = "w_write" ->
            HStep([f EXCEPT !.vfs = vfs_write_all(@, pr.path, pr.data)],
                  [pr EXCEPT !.pc = "w_put"])
      [] pr.pc = "w_put" ->
            HStep([f EXCEPT !.cache = put(@, pr.path, pr.data)],
                  [pr EXCEPT !.pc = "w_trigger"])
      [] pr.pc = "w_trigger" ->
            HStep([f EXCEPT !.watcher = bus_trigger(@, NotifyEventNew(Modify, pr.path))],
                  [pr EXCEPT !.pc = "ret"])

\* api_ext::remove_file
remove_file_stmt(f, pr) ==
    CASE pr.pc = "rm_vfs" ->
            IF vfs_remove_file_ok(f.vfs, pr.path)
            THEN HStep([f EXCEPT !.vfs = vfs_remove(@, pr.path)],
                       [pr EXCEPT !.pc = "rm_inv"])
            ELSE HStep(f, [pr EXCEPT !.pc = "ret"])
      [] pr.pc = "rm_inv" ->
            HStep([f EXCEPT !.cache = invalidate(@, pr.path)],
                  [pr EXCEPT !.pc = "rm_trigger"])
      [] pr.pc = "rm_trigger" ->
            HStep([f EXCEPT !.watcher = bus_trigger(@, NotifyEventNew(Delete, pr.path))],
                  [pr EXCEPT !.pc = "ret"])

\* thread t enters read_file ("r_get"), write_file ("w_open") or remove_file ("rm_vfs")
HookProcCall(t, op, path, data) ==
    /\ procs.hooks.thr[t].pc = "idle"
    /\ procs' = [procs EXCEPT
           !.hooks.thr[t] = [pc |-> op, op |-> op, path |-> path, data |-> data,
                             buf |-> ""],
           !.hooks.calls = @ + 1]
    /\ UNCHANGED <<buddy, buddy_obs, hybrid, hybrid_obs, arc, arc_obs, watcher,
                   watcher_obs, fs, fs_obs, threads, driver, tasks>>

\* thread t runs the statement st leads to
HookProcDo(t, st) ==
    /\ fs' = st.fs
    /\ procs' = [procs EXCEPT !.hooks.thr[t] = st.pr]
    /\ UNCHANGED <<buddy, buddy_obs, hybrid, hybrid_obs, arc, arc_obs, watcher,
                   watcher_obs, fs_obs, threads, driver, tasks>>

HookProcReadFile(t) ==
    /\ procs.hooks.thr[t].pc \in {"r_get", "r_read", "r_put", "r_trigger"}
    /\ HookProcDo(t, read_file_stmt(fs, procs.hooks.thr[t]))

HookProcWriteFile(t) ==
    /\ procs.hooks.thr[t].pc \in {"w_open", "w_write", "w_put", "w_trigger"}
    /\ HookProcDo(t, write_file_stmt(fs, procs.hooks.thr[t]))

HookProcRemoveFile(t) ==
    /\ procs.hooks.thr[t].pc \in {"rm_vfs", "rm_inv", "rm_trigger"}
    /\ HookProcDo(t, remove_file_stmt(fs, procs.hooks.thr[t]))

\* the call of thread t returns
HookProcReturn(t) ==
    /\ procs.hooks.thr[t].pc = "ret"
    /\ procs' = [procs EXCEPT !.hooks.thr[t] = HookProcNew]
    /\ UNCHANGED <<buddy, buddy_obs, hybrid, hybrid_obs, arc, arc_obs, watcher,
                   watcher_obs, fs, fs_obs, threads, driver, tasks>>

\* the objects as their constructors leave them; the caches are built with
\* capacity c, the hook layer by unfound_fs::init(c) over an empty VFS
\* the threads calling the allocators, the watcher and the hook layer
ProcsNew ==
    [buddy |-> BuddyProcsNew, hybrid |-> HybridProcsNew, notify |-> NotifyProcsNew,
     hooks |-> HookProcsNew]

InitWith(c) ==
    /\ buddy = BuddyNew
    /\ buddy_obs = ObsNew
    /\ hybrid = HybridNew
    /\ hybrid_obs = HybridObsNew
    /\ arc = ARCacheNew(c)
    /\ arc_obs = [ret |-> [tag |-> "Unit", value |-> 0]]
    /\ watcher = FileWatcherNew(QueueCapacity)
    /\ watcher_obs = WatcherObsNew
    /\ fs = FsNew(VfsEmpty, c)
    /\ fs_obs = FsObsNew
    /\ threads = ThreadsNew
    /\ driver = 0
    /\ tasks = TasksNew
    /\ procs = ProcsNew

Init == InitWith(MaxArcCapacity)

\* ARCache::new(capacity) for every capacity from 1 to MaxArcCapacity
InitArc == \E c \in 1..MaxArcCapacity : InitWith(c)

NextBuddy ==
    \/ \E s \in RegionStarts, z \in BuddyRegionSizes : BuddyInit(s, z)
    \/ \E n \in BuddyReqPages, a \in AlignInputs : BuddyAllocPages(n, a)
    \/ \E s \in AddrInputs(buddy.base, buddy.total_pages),
          n \in BuddyReqPages, a \in AlignInputs : BuddyAllocPagesAt(s, n, a)
    \/ \E s \in AddrInputs(buddy.base, buddy.total_pages) : BuddyDeallocPages(s, 1)

SpecBuddy == Init /\ [][NextBuddy]_vars

\* a caller that releases only extents it holds: init, alloc_pages and
\* alloc_pages_at with page alignment, dealloc_pages of a live extent
NextBuddyCycle ==
    \/ \E s \in RegionStarts, z \in BuddyRegionSizes : BuddyInit(s, z)
    \/ \E n \in BuddyReqPages : BuddyAllocPages(n, PAGE_SIZE)
    \/ \E s \in AddrInputs(buddy.base, buddy.total_pages), n \in BuddyReqPages :
          BuddyAllocPagesAt(s, n, PAGE_SIZE)
    \/ \E e \in buddy_obs.live : BuddyDeallocPages(e.addr, e.pages)

SpecBuddyCycle == Init /\ [][NextBuddyCycle]_vars

HybridHoldsFew == hybrid_obs.issued < MaxHybridAllocs

NextHybrid ==
    \/ \E z \in HybridRegionSizes : HybridInit(HybridRegionStart, z)
    \/ \E n \in HybridReqPages, a \in AlignInputs :
          HybridHoldsFew /\ hybrid.total_pages > 0 /\ HybridAllocPages(n, a)
    \/ \E s \in HybridAddrInputs(hybrid.base, hybrid.total_pages),
          n \in HybridReqPages, a \in AlignInputs :
          HybridHoldsFew /\ hybrid.total_pages > 0 /\ HybridAllocPagesAt(s, n, a)
    \/ \E s \in {e.addr : e \in hybrid_obs.live}
                 \cup HybridAddrInputs(hybrid.base, hybrid.total_pages) :
          hybrid.total_pages > 0 /\ HybridDeallocPages(s, 1)

SpecHybrid == Init /\ [][NextHybrid]_vars

\* the num_pages a caller of dealloc_pages passes: nothing, one page, more than
\* any extent of the buddy region
DeallocSizes == {0, 1, MaxBuddyPages + 1}

\* one allocator is in use, the buddy or the hybrid one; dealloc_pages is called
\* with held and with arbitrary addresses and with any num_pages
NextDealloc ==
    \/ /\ hybrid.total_pages = 0
       /\ \/ \E z \in BuddyRegionSizes : BuddyInit(HybridRegionStart, z)
          \/ \E n \in BuddyReqPages : BuddyAllocPages(n, PAGE_SIZE)
          \/ \E s \in {e.addr : e \in buddy_obs.live}
                       \cup AddrInputs(buddy.base, buddy.total_pages),
                m \in DeallocSizes :
                buddy.total_pages > 0 /\ BuddyDeallocPages(s, m)
    \/ /\ buddy.total_pages = 0
       /\ \/ \E z \in HybridRegionSizes : HybridInit(HybridRegionStart, z)
          \/ \E n \in HybridReqPages :
                HybridHoldsFew /\ hybrid.total_pages > 0 /\ HybridAllocPages(n, PAGE_SIZE)
          \/ \E s \in {e.addr : e \in hybrid_obs.live}
                       \cup HybridAddrInputs(hybrid.base, hybrid.total_pages),
                m \in DeallocSizes :
                hybrid.total_pages > 0 /\ HybridDeallocPages(s, m)

SpecDealloc == Init /\ [][NextDealloc]_vars

\* the hybrid allocator on a region smaller than THRESHOLD_PAGES, where every
\* request goes to the bitmap and a request can exceed the region
NextHybridSmall ==
    \/ \E z \in BuddyRegionSizes : HybridInit(HybridRegionStart, z)
    \/ \E n \in BuddyReqPages, a \in AlignInputs :
          HybridHoldsFew /\ hybrid.total_pages > 0 /\ HybridAllocPages(n, a)
    \/ \E s \in AddrInputs(hybrid.base, hybrid.total_pages),
          n \in BuddyReqPages, a \in AlignInputs :
          HybridHoldsFew /\ hybrid.total_pages > 0 /\ HybridAllocPagesAt(s, n, a)
    \/ \E e \in hybrid_obs.live :
          hybrid.total_pages > 0 /\ HybridDeallocPages(e.addr, e.pages)

SpecHybridSmall == Init /\ [][NextHybridSmall]_vars

ArcKeys == 1..NumArcKeys

ArcValues == {1}

NextArc ==
    \/ \E k \in ArcKeys, v \in ArcValues : ArcPut(k, v)
    \/ \E k \in ArcKeys : arc.hits + arc.misses < MaxArcGets /\ ArcGet(k)
    \/ \E k \in ArcKeys : ArcInvalidate(k)

SpecArc == InitArc /\ [][NextArc]_vars

\* a cache whose callers store two different values
ValueKeys == 1..NumValueKeys

TwoValues == {1, 2}

NextArcValues ==
    \/ \E k \in ValueKeys, v \in TwoValues : ArcPut(k, v)
    \/ \E k \in ValueKeys : arc.hits + arc.misses < MaxArcGets /\ ArcGet(k)
    \/ \E k \in ValueKeys : ArcInvalidate(k)

SpecArcValues == InitArc /\ [][NextArcValues]_vars

\* the adaptivity scenario: capacity 4 and the calls
\* put(A) put(B) put(C) put(D) get(A) get(B) put(E) put(F) put(A) put(G) put(C);
\* driver is the number of calls made so far
ScenarioCapacity == 4

Scenario ==
    <<<<"put", "A">>, <<"put", "B">>, <<"put", "C">>, <<"put", "D">>,
      <<"get", "A">>, <<"get", "B">>, <<"put", "E">>, <<"put", "F">>,
      <<"put", "A">>, <<"put", "G">>, <<"put", "C">>>>

ScenarioPut(value) ==
    /\ driver < Len(Scenario)
    /\ Scenario[driver + 1][1] = "put"
    /\ arc' = put(arc, Scenario[driver + 1][2], value)
    /\ arc_obs' = [ret |-> [tag |-> "Unit", value |-> 0]]
    /\ driver' = driver + 1
    /\ UNCHANGED <<buddy, buddy_obs, hybrid, hybrid_obs, watcher, watcher_obs,
                   fs, fs_obs, threads, tasks, procs>>

ScenarioGet ==
    /\ driver < Len(Scenario)
    /\ Scenario[driver + 1][1] = "get"
    /\ arc' = get(arc, Scenario[driver + 1][2])
    /\ arc_obs' = [ret |-> get_result(arc, Scenario[driver + 1][2])]
    /\ driver' = driver + 1
    /\ UNCHANGED <<buddy, buddy_obs, hybrid, hybrid_obs, watcher, watcher_obs,
                   fs, fs_obs, threads, tasks, procs>>

NextScenario ==
    \/ \E v \in TwoValues : ScenarioPut(v)
    \/ ScenarioGet

SpecScenario == InitWith(ScenarioCapacity) /\ [][NextScenario]_vars

\* NumTasks threads call put, get and invalidate on one cache, statement by
\* statement
TaskKeys == 1..NumTaskKeys

NextTasks ==
    \/ \E t \in Tasks, op \in {"put", "get", "invalidate"}, k \in TaskKeys :
          tasks.calls < MaxTaskCalls /\ TaskCall(t, op, k, 1)
    \/ \E t \in Tasks : TaskPut(t)
    \/ \E t \in Tasks : TaskHandleB1Hit(t)
    \/ \E t \in Tasks : TaskHandleB2Hit(t)
    \/ \E t \in Tasks : TaskInsertNew(t)
    \/ \E t \in Tasks : TaskReplace(t)
    \/ \E t \in Tasks : TaskPromote(t)
    \/ \E t \in Tasks : TaskGet(t)
    \/ \E t \in Tasks : TaskInvalidate(t)
    \/ \E t \in Tasks : TaskReturn(t)

SpecTasks == InitWith(TaskCapacity) /\ [][NextTasks]_vars

\* one statement of the put call thread t is in
PutStep(t) ==
    \/ TaskPut(t)
    \/ TaskHandleB1Hit(t)
    \/ TaskHandleB2Hit(t)
    \/ TaskInsertNew(t)
    \/ TaskReplace(t)
    \/ TaskPromote(t)
    \/ TaskReturn(t)

\* the threads call put only
NextTaskPuts ==
    \/ \E t \in Tasks, k \in TaskKeys :
          tasks.calls < MaxTaskCalls /\ TaskCall(t, "put", k, 1)
    \/ \E t \in Tasks : TaskPut(t)
    \/ \E t \in Tasks : TaskHandleB1Hit(t)
    \/ \E t \in Tasks : TaskHandleB2Hit(t)
    \/ \E t \in Tasks : TaskInsertNew(t)
    \/ \E t \in Tasks : TaskReplace(t)
    \/ \E t \in Tasks : TaskPromote(t)
    \/ \E t \in Tasks : TaskReturn(t)

\* fair scheduling: a thread whose next statement can run is eventually run
SpecTaskPutsFair ==
    /\ InitWith(TaskCapacity)
    /\ [][NextTaskPuts]_vars
    /\ \A t \in Tasks : WF_vars(PutStep(t))

\* NumProcs threads call alloc_pages, alloc_pages_at and dealloc_pages of one
\* BuddyAllocator, statement by statement; they free extents they hold
ProcReqPages == {1, 2}

NextBuddyProcs ==
    \/ /\ buddy.total_pages = 0
       /\ BuddyInit(HybridRegionStart, ProcRegionPages * PAGE_SIZE)
    \/ \E t \in Procs, n \in ProcReqPages :
          procs.buddy.calls < MaxProcCalls /\ BuddyProcCall(t, "alloc", n, 0)
    \/ \E t \in Procs, k \in 0..(ProcRegionPages - 1) :
          /\ procs.buddy.calls < MaxProcCalls
          /\ BuddyProcCall(t, "at", 1, buddy.base + k * PAGE_SIZE)
    \/ \E t \in Procs, e \in buddy_obs.live :
          procs.buddy.calls < MaxProcCalls /\ BuddyProcCall(t, "dealloc", e.pages, e.addr)
    \/ \E t \in Procs : BuddyProcAlloc(t)
    \/ \E t \in Procs : BuddyProcAllocAt(t)
    \/ \E t \in Procs : BuddyProcDealloc(t)
    \/ \E t \in Procs : BuddyProcReturn(t)

SpecBuddyProcs == Init /\ [][NextBuddyProcs]_vars

\* NumProcs threads call alloc_pages and alloc_pages_at of one HybridAllocator
\* on a region of two large blocks: one page or one large block per request
HybridProcReqPages == {1, THRESHOLD_PAGES}

HybridProcStarts(h) == {h.base, h.base + THRESHOLD_PAGES * PAGE_SIZE}

NextHybridProcs ==
    \/ HybridInit(HybridRegionStart, 2 * THRESHOLD_PAGES * PAGE_SIZE)
    \/ \E t \in Procs, n \in HybridProcReqPages :
          procs.hybrid.calls < MaxProcCalls /\ HybridProcCall(t, "alloc", n, 0)
    \/ \E t \in Procs, n \in HybridProcReqPages, s \in HybridProcStarts(hybrid) :
          procs.hybrid.calls < MaxProcCalls /\ HybridProcCall(t, "at", n, s)
    \/ \E t \in Procs : HybridProcAlloc(t)
    \/ \E t \in Procs : HybridProcAllocAt(t)
    \/ \E t \in Procs : HybridProcReturn(t)

SpecHybridProcs == Init /\ [][NextHybridProcs]_vars

\* trigger by NumProcs threads statement by statement, add_watch and
\* remove_watch between their statements
NextNotifyProcs ==
    \/ \E wi \in WatchInputs :
          watcher.next_wd <= MaxWatches /\ AddWatch(wi[1], wi[2])
    \/ \E wd \in 1..MaxWatches : RemoveWatch(wd)
    \/ \E t \in Procs, ei \in EventInputs :
          /\ procs.notify.calls < MaxProcCalls
          /\ TriggerProcCall(t, [event_type |-> ei[1], path |-> ei[2],
                                 timestamp |-> procs.notify.calls + 1])
    \/ \E t \in Procs : TriggerProcDo(t)
    \/ \E t \in Procs : TriggerProcReturn(t)

SpecNotifyProcs == Init /\ [][NextNotifyProcs]_vars

NextNotify ==
    \/ \E wi \in WatchInputs :
          watcher.next_wd <= MaxWatches /\ AddWatch(wi[1], wi[2])
    \/ \E wd \in 1..(MaxWatches + 1) : RemoveWatch(wd)
    \/ \E ei \in EventInputs :
          watcher_obs.accepted < MaxAccepted /\ Trigger(StampedEvent(ei))
    \/ \E ei \in EventInputs :
          watcher_obs.accepted < MaxAccepted /\ TriggerUnchecked(StampedEvent(ei))
    \/ \E n \in ReadCounts : ReadEvents(n)

SpecNotify == Init /\ [][NextNotify]_vars

\* the watch table with up to MaxWatchCalls subscriptions and the filtered trigger
NextWatches ==
    \/ \E wi \in WatchInputs :
          watcher.next_wd <= MaxWatchCalls /\ AddWatch(wi[1], wi[2])
    \/ \E wd \in 0..(MaxWatchCalls + 1) : RemoveWatch(wd)
    \/ \E ei \in EventInputs :
          watcher_obs.accepted < MaxWatchTriggers /\ Trigger(StampedEvent(ei))

SpecWatches == Init /\ [][NextWatches]_vars

\* the number of pairs that takes the counter to i32::MAX - 1
PairsToLastWds ==
    IF watcher.next_wd > 0 THEN {I32_MAX - 1 - watcher.next_wd} ELSE {}

\* add_watch by NumThreads threads statement by statement, remove_watch between
NextWdThreads ==
    \/ \E t \in Threads : threads.calls < MaxWatchCalls /\ AddWatchLock(t)
    \/ \E t \in Threads : AddWatchRead(t)
    \/ \E t \in Threads : AddWatchIncr(t)
    \/ \E t \in Threads : AddWatchIncrPanic(t)
    \/ \E t \in Threads, wi \in WatchInputs : AddWatchInsert(t, wi[1], wi[2])
    \/ \E t \in Threads : AddWatchReturn(t)
    \/ \E wd \in DOMAIN watcher.watches \cup {watcher.next_wd} : RemoveWatch(wd)
    \/ \E k \in PairsToLastWds : AddRemovePairs(k)

SpecWdThreads == Init /\ [][NextWdThreads]_vars

\* the functional test reads the queue after every call: a hook runs on a
\* drained queue
HooksQuiet == fs.watcher.event_queue = <<>>

HookReadsLeft == fs.cache.hits + fs.cache.misses < MaxHookReads

\* the hooks of lib.rs (fops_ext, api_ext) and the test's check_events
NextHooks ==
    \/ \E p \in FsPaths, o \in {"read", "create"}, dv \in {"ok", "fail_first"} :
          HooksQuiet /\ FsOpen(p, o, dv)
    \/ \E p \in FsPaths, dv \in DevOutcomes :
          HooksQuiet /\ HookReadsLeft /\ FsReadFile(p, dv)
    \/ \E p \in FsPaths, x \in FsData, dv \in DevOutcomes :
          HooksQuiet /\ FsWriteFile(p, x, dv)
    \/ \E p \in FsPaths, dv \in {"ok", "fail_first"} : HooksQuiet /\ ApiCreateDir(p, dv)
    \/ \E p \in FsPaths, dv \in {"ok", "fail_first"} : HooksQuiet /\ ApiRemoveFile(p, dv)
    \/ \E p \in FsPaths, dv \in {"ok", "fail_first"} : HooksQuiet /\ ApiRemoveDir(p, dv)
    \/ CheckEvents

\* the hooks of fs_hooks.rs next to the cached read_file and write_file of lib.rs
NextFsHooks ==
    \/ \E p \in FsPaths, dv \in DevOutcomes :
          HooksQuiet /\ HookReadsLeft /\ FsReadFile(p, dv)
    \/ \E p \in FsPaths, x \in FsData, dv \in DevOutcomes :
          HooksQuiet /\ FsWriteFile(p, x, dv)
    \/ \E p \in FsPaths, dv \in {"ok", "fail_first"} :
          HooksQuiet /\ ReadFileWithNotify(p, dv)
    \/ \E p \in FsPaths, x \in FsData, dv \in DevOutcomes :
          HooksQuiet /\ WriteFileWithNotify(p, x, dv)
    \/ \E p \in FsPaths, dv \in {"ok", "fail_first"} :
          HooksQuiet /\ CreateFileWithNotify(p, dv)
    \/ \E p \in FsPaths, dv \in {"ok", "fail_first"} :
          HooksQuiet /\ RemoveFileWithNotify(p, dv)
    \/ \E p \in FsPaths, dv \in {"ok", "fail_first"} :
          HooksQuiet /\ CreateDirWithNotify(p, dv)
    \/ \E p \in FsPaths, dv \in {"ok", "fail_first"} :
          HooksQuiet /\ RemoveDirWithNotify(p, dv)
    \/ \E p \in FsPaths, q \in FsPaths, dv \in {"ok", "fail_first"} :
          HooksQuiet /\ RenameWithNotify(p, q, dv)
    \/ CheckEvents

\* read_file, write_file and remove_file of one path by NumProcs threads,
\* statement by statement
NextHookProcs ==
    \/ \E t \in Procs :
          procs.hooks.calls < MaxProcCalls /\ HookProcCall(t, "r_get", HookPath, "")
    \/ \E t \in Procs, x \in FsData :
          procs.hooks.calls < MaxProcCalls /\ HookProcCall(t, "w_open", HookPath, x)
    \/ \E t \in Procs :
          procs.hooks.calls < MaxProcCalls /\ HookProcCall(t, "rm_vfs", HookPath, "")
    \/ \E t \in Procs : HookProcReadFile(t)
    \/ \E t \in Procs : HookProcWriteFile(t)
    \/ \E t \in Procs : HookProcRemoveFile(t)
    \/ \E t \in Procs : HookProcReturn(t)

SpecHookProcs == Init /\ [][NextHookProcs]_vars

\* unfound_fs::init(cache_pages) for every cache_pages from 1 to MaxArcCapacity
SpecHooks == InitArc /\ [][NextHooks]_vars

SpecFsHooks == InitArc /\ [][NextFsHooks]_vars

(***************************************************************************)
(* Properties                                                              *)
(***************************************************************************)
ExtentsDisjoint(e, f) ==
    \/ e.addr + e.pages * PAGE_SIZE <= f.addr
    \/ f.addr + f.pages * PAGE_SIZE <= e.addr

\* C1: every extent the buddy allocator has returned and that has not been
\* deallocated starts at a multiple of PAGE_SIZE, lies with its recorded 2^order
\* pages inside [base, base + total_pages * PAGE_SIZE), is the extent the
\* allocation map records for it, and shares no page with another live extent
\* (no address is handed out while it is still live).
C1_BuddyExtentsSafe ==
    /\ ~buddy_obs.reissued
    /\ \A e \in buddy_obs.live :
          /\ e.addr % PAGE_SIZE = 0
          /\ e.addr >= buddy.base
          /\ e.addr + e.pages * PAGE_SIZE <= buddy.base + buddy.total_pages * PAGE_SIZE
    /\ \A e, f \in buddy_obs.live : e # f => ExtentsDisjoint(e, f)
    /\ buddy_obs.live =
          {[addr |-> buddy.base + idx * PAGE_SIZE, pages |-> Pow2(buddy.alloc_map[idx])] :
              idx \in DOMAIN buddy.alloc_map}

\* three extents are live, the last call returned one of them, and a block freed
\* or split off earlier is still on a free list
C1_Witness ==
    /\ Cardinality(buddy_obs.live) >= 3
    /\ buddy_obs.ret.tag = "Ok"
    /\ buddy_obs.ret.addr \in {e.addr : e \in buddy_obs.live}
    /\ \E o \in 1..Len(buddy.free_lists) : Len(buddy.free_lists[o]) > 0

HybridExtentPages(e, base) ==
    {(e.addr - base) \div PAGE_SIZE + i : i \in 0..(e.pages - 1)}

\* C2: in the hybrid allocator no two live extents share a page, and no page of a
\* live extent is reported free by the bitmap or lies inside a free-list block.
C2_HybridPagesExclusive ==
    /\ ~hybrid_obs.reissued
    /\ \A e, f \in hybrid_obs.live : e # f => ExtentsDisjoint(e, f)
    /\ \A e \in hybrid_obs.live : \A pg \in HybridExtentPages(e, hybrid.base) :
          /\ pg \notin hybrid.bitmap
          /\ ~\E k \in DOMAIN hybrid.free_list : k <= pg /\ pg < k + hybrid.free_list[k]

SeqSet(s) == {s[i] : i \in 1..Len(s)}

NoDuplicates(s) == \A i, j \in 1..Len(s) : i # j => s[i] # s[j]

\* C3: the number of resident keys never exceeds the capacity: |T1| + |T2| <= c.
C3_ResidentBound == Len(arc.t1) + Len(arc.t2) <= arc.capacity

\* C4: the directory bounds |T2| + |B2| <= 2c and |T1| + |T2| + |B1| + |B2| <= 2c.
C4_DirectoryBound ==
    /\ Len(arc.t2) + Len(arc.b2) <= 2 * arc.capacity
    /\ Len(arc.t1) + Len(arc.t2) + Len(arc.b1) + Len(arc.b2) <= 2 * arc.capacity

\* C5: the recency side and each ghost list are bounded by the capacity:
\* |T1| + |B1| <= c, |B1| <= c and |B2| <= c.
C5_RecencyGhostBounds ==
    /\ Len(arc.t1) + Len(arc.b1) <= arc.capacity
    /\ Len(arc.b1) <= arc.capacity
    /\ Len(arc.b2) <= arc.capacity

\* T1 and B1 together fill the capacity, and both ghost lists hold a key
C5_Witness ==
    /\ Len(arc.t1) + Len(arc.b1) = arc.capacity
    /\ Len(arc.b1) > 0
    /\ Len(arc.b2) > 0
    /\ Len(arc.t1) > 0

\* C6: the adaptive partition stays in range: 0 <= p <= c.
C6_PartitionRange == 0 <= arc.p /\ arc.p <= arc.capacity

\* B1 hits have raised p to the capacity of a cache that holds more than one key
C6_Witness == arc.p = arc.capacity /\ arc.capacity >= 2

\* C7: every key is in at most one place of T1, T2, B1, B2; the keys of the value
\* store are exactly the keys of T1 and T2; no ghost key has a value.
C7_ListsConsistent ==
    /\ NoDuplicates(arc.t1 \o arc.t2 \o arc.b1 \o arc.b2)
    /\ DOMAIN arc.cache = SeqSet(arc.t1) \cup SeqSet(arc.t2)
    /\ (SeqSet(arc.b1) \cup SeqSet(arc.b2)) \cap DOMAIN arc.cache = {}

\* all four lists hold a key at once
C7_Witness ==
    /\ Len(arc.t1) > 0
    /\ Len(arc.t2) > 0
    /\ Len(arc.b1) > 0
    /\ Len(arc.b2) > 0

\* the stamps of the queued events are consecutive and end at the last enqueue
QueueIsRecentSuffix(wa, obs) ==
    \A i \in 1..Len(wa.event_queue) :
        wa.event_queue[i].timestamp = obs.accepted - Len(wa.event_queue) + i

\* C8: the queue never holds more than max_events events; an append to a full
\* queue drops exactly the oldest event, so the queue is always the most recent
\* enqueued events in trigger order, and as long as nothing was read it holds the
\* last min(k, max_events) of the k events enqueued.
C8_QueueBackpressure ==
    /\ Len(watcher.event_queue) <= watcher.max_events
    /\ QueueIsRecentSuffix(watcher, watcher_obs)
    /\ ~watcher_obs.reads =>
          pending_count(watcher) = Min(watcher_obs.accepted, watcher.max_events)

\* more events than max_events were enqueued with no read, the last by trigger
C8_Witness ==
    /\ ~watcher_obs.reads
    /\ watcher_obs.accepted > watcher.max_events
    /\ watcher_obs.op = "trigger"
    /\ watcher_obs.enqueued
    /\ pending_count(watcher) = watcher.max_events

\* C9: read_events(max) returns the first min(max, |queue|) events in queue order,
\* leaves the rest queued in order, lowers pending_count by the number returned,
\* and returns no event that an earlier read returned.
C9_ReadEventsFifo ==
    [][watcher_obs'.op = "read_events" =>
         LET q == watcher.event_queue
             r == watcher_obs'.ret
         IN /\ Len(r) = Min(watcher_obs'.arg, Len(q))
            /\ r = SubSeq(q, 1, Len(r))
            /\ watcher'.event_queue = SubSeq(q, Len(r) + 1, Len(q))
            /\ pending_count(watcher') = pending_count(watcher) - Len(r)
            /\ \A i \in 1..Len(r) : r[i].timestamp \notin watcher_obs.returned]_vars

\* a read returned two events and left at least one queued, after an earlier read
C9_Witness ==
    /\ watcher_obs.op = "read_events"
    /\ Len(watcher_obs.ret) = 2
    /\ pending_count(watcher) >= 1
    /\ Cardinality(watcher_obs.returned) > 2

\* C10: trigger enqueues the event exactly when some registered watch has a path
\* that is a prefix of the event's path and a mask with the event kind's bit.
C10_TriggerIffSomeWatchMatches ==
    watcher_obs.op = "trigger" => (watcher_obs.enqueued <=> watcher_obs.matched)

\* C11: a trigger whose event matches two or more registered watches (prefix and
\* mask) appends the event to the queue exactly once.
C11_MatchingTriggerAppendsOnce ==
    (watcher_obs.op = "trigger" /\ watcher_obs.nmatched >= 2) =>
        /\ watcher_obs.enqueued
        /\ Cardinality({i \in 1..Len(watcher.event_queue) :
                           watcher.event_queue[i].timestamp = watcher_obs.accepted}) = 1


\* C12: the first add_watch returns 1, and every add_watch returns a value
\* strictly greater than every value returned before it (so no value is returned
\* twice), whatever remove_watch calls and thread interleavings come between.
C12_WdStrictlyIncreasing ==
    threads.any =>
        /\ threads.first = 1
        /\ threads.last > threads.prev_max


\* C13: remove_watch(wd) of a wd that is not registered (never issued, or removed
\* before) returns NotFound and changes nothing; of a registered wd it removes
\* that entry only, keeps every other entry and the queued events, and leaves wd
\* unregistered, so that removing it again returns NotFound.
C13_RemoveWatchExact ==
    [][watcher_obs'.op \in {"remove_watch", "NotFound"} =>
         LET wd == watcher_obs'.arg
         IN IF wd \in DOMAIN watcher.watches
            THEN /\ watcher_obs'.op = "remove_watch"
                 /\ DOMAIN watcher'.watches = DOMAIN watcher.watches \ {wd}
                 /\ \A o \in DOMAIN watcher'.watches :
                        watcher'.watches[o] = watcher.watches[o]
                 /\ watcher'.event_queue = watcher.event_queue
                 /\ watcher'.next_wd = watcher.next_wd
            ELSE /\ watcher_obs'.op = "NotFound"
                 /\ watcher' = watcher]_vars

\* a registered watch was removed while another stays registered and an event is
\* queued
C13_Witness ==
    /\ watcher_obs.op = "remove_watch"
    /\ watcher_obs.arg \notin DOMAIN watcher.watches
    /\ watcher_obs.arg < watcher.next_wd
    /\ watcher.watches # EmptyMap
    /\ Len(watcher.event_queue) > 0


\* the resident part of the cache: the value map and the four lists
CacheContents(a) == <<a.cache, a.t1, a.t2, a.b1, a.b2>>

\* C14: a hooked file operation whose VFS call fails returns the error, has passed
\* no event to the bus and leaves the cache contents as they were.
C14_FailedHookHasNoEffect ==
    [][(fs_obs'.op # "check_events" /\ fs_obs'.ret.tag = "Err") =>
          /\ fs_obs'.emitted = <<>>
          /\ fs'.watcher = fs.watcher
          /\ CacheContents(fs'.cache) = CacheContents(fs.cache)]_vars

\* C15: a write_file(path, data) that succeeds has emitted Create then Modify when
\* path was absent from the VFS before the call and Modify only when it existed,
\* and leaves data in the VFS and in the cache entry of path.
C15_WriteFileEvents ==
    [][(fs_obs'.op \in {"write_file", "write_file_with_notify"}
        /\ fs_obs'.ret.tag = "Ok") =>
          LET path == fs_obs'.path
              data == fs_obs'.arg
          IN /\ fs_obs'.emitted =
                    IF vfs_exists(fs.vfs, path)
                    THEN <<NotifyEventNew(Modify, path)>>
                    ELSE <<NotifyEventNew(Create, path), NotifyEventNew(Modify, path)>>
             /\ fs'.vfs[path] = VfsFile(data)
             /\ path \in DOMAIN fs'.cache.cache
             /\ fs'.cache.cache[path] = data]_vars

\* the kind of the one event the functional test expects of a call
ExpectedEvent(op) ==
    IF op = "write_file" THEN Modify
    ELSE IF op = "read_file" THEN Access
    ELSE IF op = "create_dir" THEN Create
    ELSE Delete

\* C16: called on an empty queue, a successful write_file, read_file (cache miss
\* or hit), create_dir or remove_file of lib.rs leaves exactly one event queued,
\* of kind Modify, Access, Create and Delete respectively, for the call's path.
C16_OneEventPerCall ==
    [][(fs_obs'.op \in {"write_file", "read_file", "create_dir", "remove_file"}
        /\ fs_obs'.ret.tag = "Ok"
        /\ pending_count(fs.watcher) = 0) =>
          /\ pending_count(fs'.watcher) = 1
          /\ fs'.watcher.event_queue =
                 <<NotifyEventNew(ExpectedEvent(fs_obs'.op), fs_obs'.path)>>]_vars

\* read_file was served from the cache and left its one Access event
C16_Witness ==
    /\ fs_obs.op = "read_file"
    /\ fs_obs.ret.tag = "Ok"
    /\ fs.cache.hits > 0
    /\ fs.watcher.event_queue = <<NotifyEventNew(Access, fs_obs.path)>>

\* C17: every path with a cache entry is a file of the VFS and the cached bytes
\* are the bytes the VFS holds for it.
C17_CacheCoherent ==
    \A path \in DOMAIN fs.cache.cache :
        /\ fs.vfs[path].kind = "file"
        /\ fs.vfs[path].data = fs.cache.cache[path]


\* C18: an alloc_pages(n, align) with n >= 1 and align a power of two >= PAGE_SIZE
\* that succeeds returns an address that is a multiple of align and an extent of
\* n pages inside the region.
C18_AllocPagesAligned ==
    [][\A n \in BuddyReqPages, a \in AlignInputs :
          (/\ n >= 1
           /\ ~AlignInvalid(a)
           /\ BuddyAllocPages(n, a)
           /\ buddy_obs'.ret.tag = "Ok") =>
              /\ buddy_obs'.ret.addr % a = 0
              /\ buddy_obs'.ret.addr >= buddy.base
              /\ buddy_obs'.ret.addr + n * PAGE_SIZE
                     <= buddy.base + buddy.total_pages * PAGE_SIZE]_vars



\* the pages the buddy free-lists hold: 2^k for every block of order k
RECURSIVE BuddyFreePagesFrom(_, _)
BuddyFreePagesFrom(b, k) ==
    IF k > b.max_order THEN 0
    ELSE Pow2(k) * Len(b.free_lists[k + 1]) + BuddyFreePagesFrom(b, k + 1)

BuddyFreePages(b) == BuddyFreePagesFrom(b, 0)

\* the pages the hybrid free_list holds and the ones in its bitmap
RECURSIVE MapSum(_, _)
MapSum(m, keys) ==
    IF keys = {} THEN 0
    ELSE LET k == CHOOSE x \in keys : TRUE
         IN m[k] + MapSum(m, keys \ {k})

HybridFreeListPages(h) == MapSum(h.free_list, DOMAIN h.free_list)

HybridBitmapFreePages(h) == Cardinality(h.bitmap)

\* one alloc_pages(n, PAGE_SIZE); dealloc_pages(a, n) pair on the buddy allocator
buddy_round_trip(b, n) ==
    buddy_dealloc_state(buddy_alloc_state(b, n), b.base + buddy_alloc_idx(b, n) * PAGE_SIZE)

hybrid_round_trip(h, n) ==
    hybrid_dealloc_state(hybrid_alloc_state(h, n),
                         h.base + hybrid_alloc_idx(h, n) * PAGE_SIZE)

RoundTripPages == 1..MaxBuddyPages

\* the buddy allocator: from every reachable state a successful pair, and a
\* second pair after it, leaves the free-page total and used_pages as they were
BuddyRoundTripRestores ==
    \A n \in RoundTripPages :
        (buddy.total_pages > 0 /\ buddy_alloc_fits(buddy, n)) =>
            LET b1 == buddy_round_trip(buddy, n)
                b2 == buddy_round_trip(b1, n)
            IN /\ BuddyFreePages(b1) = BuddyFreePages(buddy)
               /\ b1.used_pages = buddy.used_pages
               /\ buddy_alloc_fits(b1, n)
               /\ BuddyFreePages(b2) = BuddyFreePages(buddy)
               /\ b2.used_pages = buddy.used_pages

\* C19: from every reachable state of the hybrid allocator, a successful
\* a = alloc_pages(n, PAGE_SIZE) followed at once by dealloc_pages(a, n) leaves
\* the free-page totals (free_list and bitmap) and used_pages as they were, and
\* so does a second such pair.
C19_HybridRoundTrip ==
    \A n \in HybridReqPages \ {0} :
        (hybrid.total_pages > 0 /\ ~hybrid.panicked /\ hybrid_alloc_fits(hybrid, n)) =>
            LET h1 == hybrid_round_trip(hybrid, n)
                h2 == hybrid_round_trip(h1, n)
            IN /\ HybridFreeListPages(h1) = HybridFreeListPages(hybrid)
               /\ HybridBitmapFreePages(h1) = HybridBitmapFreePages(hybrid)
               /\ h1.used_pages = hybrid.used_pages
               /\ hybrid_alloc_fits(h1, n)
               /\ HybridFreeListPages(h2) = HybridFreeListPages(hybrid)
               /\ HybridBitmapFreePages(h2) = HybridBitmapFreePages(hybrid)
               /\ h2.used_pages = hybrid.used_pages

\* a region of 2^m pages with room for two allocations (m >= 1)
BuddyPow2Region(b) == b.max_order >= 1 /\ b.total_pages = Pow2(b.max_order)

\* the free-lists as init leaves them on such a region: order m holds index 0
\* only and every smaller order is empty
BuddyListsAsAfterInit(b) ==
    /\ b.free_lists[b.max_order + 1] = <<0>>
    /\ \A k \in 1..b.max_order : b.free_lists[k] = <<>>

\* the allocator after init and one alloc_pages(1, PAGE_SIZE): page 0 is recorded
\* and every order below m holds its upper half
BuddyAfterFirstAlloc(b) ==
    /\ DOMAIN b.alloc_map = {0}
    /\ b.free_lists[b.max_order + 1] = <<>>
    /\ \A k \in 1..b.max_order : b.free_lists[k] = <<Pow2(k - 1)>>

C20_SecondAllocReached ==
    /\ BuddyPow2Region(buddy)
    /\ buddy_obs.ret = Ret("Ok", buddy.base + PAGE_SIZE)
    /\ buddy_obs.live = {[addr |-> buddy.base, pages |-> 1],
                         [addr |-> buddy.base + PAGE_SIZE, pages |-> 1]}
    /\ DOMAIN buddy.alloc_map = {0, 1}

\* the free blocks of the buddy allocator: <<order, position in its list, index>>
BuddyFreeBlocks(b) ==
    UNION {{<<k, j, b.free_lists[k + 1][j]>> : j \in 1..Len(b.free_lists[k + 1])} :
              k \in 0..b.max_order}

\* the pages of a free block and of a live extent, as page indices
BuddyBlockPages(f) == f[3]..(f[3] + Pow2(f[1]) - 1)

BuddyLivePages(b, e) ==
    LET i == (e.addr - b.base) \div PAGE_SIZE IN i..(i + e.pages - 1)

\* C21: between calls the buddy free-lists hold total_pages - used_pages pages,
\* every free block of order k starts at a multiple of 2^k and ends inside the
\* region, and free blocks are disjoint from each other and from every live
\* extent.
C21_BuddyFreeSpaceAccounting ==
    buddy.total_pages > 0 =>
        /\ BuddyFreePages(buddy) = buddy.total_pages - buddy.used_pages
        /\ \A f \in BuddyFreeBlocks(buddy) :
              /\ f[3] % Pow2(f[1]) = 0
              /\ f[3] + Pow2(f[1]) <= buddy.total_pages
        /\ \A f, g \in BuddyFreeBlocks(buddy) :
              f # g => BuddyBlockPages(f) \cap BuddyBlockPages(g) = {}
        /\ \A f \in BuddyFreeBlocks(buddy), e \in buddy_obs.live :
              BuddyBlockPages(f) \cap BuddyLivePages(buddy, e) = {}

\* on a region of 7 pages (not a power of two) a dealloc_pages has just released
\* an extent while another is live and blocks of two orders are free
C21_Witness ==
    /\ buddy.total_pages = 7
    /\ buddy_obs.ret = Ret("None", 0)
    /\ buddy_obs.live # {}
    /\ Cardinality({f[1] : f \in BuddyFreeBlocks(buddy)}) >= 2

\* the pages the buddy free-lists and the hybrid free_list cover, as page indices
BuddyFreePageSet(b) == UNION {BuddyBlockPages(f) : f \in BuddyFreeBlocks(b)}

HybridFreeListPageSet(h) ==
    UNION {k..(k + h.free_list[k] - 1) : k \in DOMAIN h.free_list}

\* the addresses dealloc_pages takes in SpecDealloc
BuddyDeallocAddrs ==
    {e.addr : e \in buddy_obs.live} \cup AddrInputs(buddy.base, buddy.total_pages)

HybridDeallocAddrs ==
    {e.addr : e \in hybrid_obs.live}
    \cup HybridAddrInputs(hybrid.base, hybrid.total_pages)

\* dealloc_pages(s, _) on the buddy allocator, from the current state: nothing
\* changes when s is outside the region, unaligned or not the start of a live
\* extent; else the recorded block, and nothing else, becomes free
BuddyDeallocExact(s) ==
    LET after == buddy_dealloc_state(buddy, s)
    IN IF \/ s < buddy.base
          \/ s >= buddy.base + buddy.total_pages * PAGE_SIZE
          \/ s % PAGE_SIZE # 0
          \/ s \notin {e.addr : e \in buddy_obs.live}
       THEN after = buddy
       ELSE LET idx == (s - buddy.base) \div PAGE_SIZE
                pages == Pow2(buddy.alloc_map[idx])
            IN /\ after.alloc_map = MapRemove(buddy.alloc_map, idx)
               /\ after.used_pages = buddy.used_pages - pages
               /\ BuddyFreePages(after) = BuddyFreePages(buddy) + pages
               /\ BuddyFreePageSet(after) =
                      BuddyFreePageSet(buddy) \cup idx..(idx + pages - 1)

HybridDeallocExact(s) ==
    LET after == hybrid_dealloc_state(hybrid, s)
    IN /\ ~after.panicked
       /\ IF \/ s < hybrid.base
             \/ s >= hybrid.base + hybrid.total_pages * PAGE_SIZE
             \/ s % PAGE_SIZE # 0
             \/ s \notin {e.addr : e \in hybrid_obs.live}
          THEN after = hybrid
          ELSE LET idx == (s - hybrid.base) \div PAGE_SIZE
                   pages == hybrid.alloc_map[idx][1]
                   extent == idx..(idx + pages - 1)
               IN /\ after.alloc_map = MapRemove(hybrid.alloc_map, idx)
                  /\ after.used_pages = hybrid.used_pages - pages
                  /\ IF hybrid.alloc_map[idx][2]
                     THEN /\ after.bitmap = hybrid.bitmap
                          /\ HybridFreeListPageSet(after) =
                                 HybridFreeListPageSet(hybrid) \cup extent
                     ELSE /\ after.bitmap = hybrid.bitmap \cup extent
                          /\ after.free_list = hybrid.free_list

C22_HybridReleased ==
    /\ hybrid.total_pages > THRESHOLD_PAGES
    /\ hybrid_obs.issued >= 2
    /\ hybrid_obs.live = {}
    /\ hybrid.alloc_map = EmptyMap
    /\ hybrid_obs.ret = Ret("None", 0)

\* the pages of [start, start + n * PAGE_SIZE) as page indices of the region
ExtentPages(base, start, n) ==
    LET idx == (start - base) \div PAGE_SIZE IN idx..(idx + n - 1)

\* C23: alloc_pages_at(addr, n, align) on the buddy allocator with n >= 1 and a
\* valid align returns InvalidParam when addr is not aligned to align or the
\* extent does not lie inside the region, returns addr when every page of the
\* extent is free, and NoMemory when some page of it is not free.
C23_AllocPagesAtContract ==
    [][\A s \in AddrInputs(buddy.base, buddy.total_pages),
          n \in BuddyReqPages, a \in AlignInputs :
          (/\ buddy.total_pages > 0
           /\ n >= 1
           /\ ~AlignInvalid(a)
           /\ BuddyAllocPagesAt(s, n, a)) =>
              IF \/ s % a # 0
                 \/ s < buddy.base
                 \/ s + n * PAGE_SIZE > buddy.base + buddy.total_pages * PAGE_SIZE
              THEN buddy_obs'.ret.tag = "InvalidParam"
              ELSE IF ExtentPages(buddy.base, s, n) \subseteq BuddyFreePageSet(buddy)
                   THEN buddy_obs'.ret = Ret("Ok", s)
                   ELSE buddy_obs'.ret.tag = "NoMemory"]_vars

\* C24: alloc_pages on the hybrid allocator returns InvalidParam when n = 0 or
\* align is not a power of two >= PAGE_SIZE and NoMemory when n exceeds the
\* pages of the region; it never panics, and a failing alloc_pages or
\* alloc_pages_at leaves the allocator exactly as it was.
C24_AllocFailureIsAValue ==
    [][/\ \A n \in BuddyReqPages, a \in AlignInputs :
             HybridAllocPages(n, a) =>
                /\ hybrid_obs'.ret.tag \in {"Ok", "NoMemory", "InvalidParam"}
                /\ (n = 0 \/ AlignInvalid(a)) => hybrid_obs'.ret.tag = "InvalidParam"
                /\ (n > hybrid.total_pages /\ ~AlignInvalid(a)) =>
                       hybrid_obs'.ret.tag = "NoMemory"
                /\ hybrid_obs'.ret.tag # "Ok" => hybrid' = hybrid
       /\ \A s \in AddrInputs(hybrid.base, hybrid.total_pages),
             n \in BuddyReqPages, a \in AlignInputs :
             HybridAllocPagesAt(s, n, a) =>
                /\ hybrid_obs'.ret.tag \in {"Ok", "NoMemory", "InvalidParam"}
                /\ hybrid_obs'.ret.tag # "Ok" => hybrid' = hybrid]_vars

\* get(k) called in the current state: a hit on a key of T1 or T2 returns the
\* stored value, counts one hit and moves k to the back of T2; any other key
\* returns None, counts one miss and changes nothing else
GetContract(k) ==
    LET g == get(arc, k)
        r == get_result(arc, k)
    IN IF SeqContains(arc.t1, k) \/ SeqContains(arc.t2, k)
       THEN /\ k \in DOMAIN arc.cache
            /\ r = [tag |-> "Some", value |-> arc.cache[k]]
            /\ g.hits = arc.hits + 1
            /\ g.misses = arc.misses
            /\ g.t1 = retain_ne(arc.t1, k)
            /\ g.t2 = Append(retain_ne(arc.t2, k), k)
            /\ g.b1 = arc.b1 /\ g.b2 = arc.b2 /\ g.p = arc.p
            /\ g.cache = arc.cache
       ELSE /\ r = [tag |-> "None", value |-> 0]
            /\ g = [arc EXCEPT !.misses = @ + 1]

\* put(k, v) stores v for k and changes no other stored value; a get straight
\* after it returns v
PutStoresValue(k, v) ==
    LET a == put(arc, k, v)
    IN /\ k \in DOMAIN a.cache /\ a.cache[k] = v
       /\ \A j \in DOMAIN a.cache \ {k} : j \in DOMAIN arc.cache /\ a.cache[j] = arc.cache[j]
       /\ get_result(a, k) = [tag |-> "Some", value |-> v]

\* invalidate stores nothing new
InvalidateStoresNothing(k) ==
    LET a == invalidate(arc, k)
    IN \A j \in DOMAIN a.cache : j \in DOMAIN arc.cache /\ a.cache[j] = arc.cache[j]

\* C25: in every reachable state get(k) for a key in T1 or T2 returns the stored
\* value (the one of the most recent put(k, .), since no other call changes a
\* stored value), adds one to hits and leaves k last in T2 and out of T1 with the
\* other keys in their order; get(k) for any other key returns absent, adds one
\* to misses and changes nothing else; put(k, v) followed by get(k) returns v.
C25_GetAndRoundTrip ==
    \A k \in ValueKeys :
        /\ GetContract(k)
        /\ InvalidateStoresNothing(k)
        /\ \A v \in TwoValues : PutStoresValue(k, v)

\* a get has just returned the second value of a key that was put twice, after a
\* miss, and T2 holds two keys
C25_Witness ==
    /\ arc_obs.ret = [tag |-> "Some", value |-> 2]
    /\ arc.hits >= 1
    /\ arc.misses >= 1
    /\ Len(arc.t2) >= 2
    /\ \E k \in ValueKeys : k \in DOMAIN arc.cache /\ arc.cache[k] = 1

\* list `after` is list `before` with every occurrence of k taken out: the same
\* other keys, as often, in the same order
IsListWithout(after, before, k) ==
    /\ \A i \in 1..Len(after) : after[i] # k
    /\ Len(after) = Cardinality({i \in 1..Len(before) : before[i] # k})
    /\ \A i \in 1..Len(after) :
          \E j \in 1..Len(before) :
             /\ before[j] = after[i]
             /\ Cardinality({m \in 1..j : before[m] # k}) = i

\* C26: in every reachable state invalidate(k) leaves k in none of T1, T2, B1,
\* B2 and without a value, keeps every other key's position and value and p, and
\* changes nothing when k is in no list; put(k, v); invalidate(k); get(k)
\* returns absent.
C26_InvalidateRemovesOnlyKey ==
    \A k \in ValueKeys :
        LET a == invalidate(arc, k)
        IN /\ IsListWithout(a.t1, arc.t1, k)
           /\ IsListWithout(a.t2, arc.t2, k)
           /\ IsListWithout(a.b1, arc.b1, k)
           /\ IsListWithout(a.b2, arc.b2, k)
           /\ DOMAIN a.cache = DOMAIN arc.cache \ {k}
           /\ \A j \in DOMAIN a.cache : a.cache[j] = arc.cache[j]
           /\ a.p = arc.p /\ a.hits = arc.hits /\ a.misses = arc.misses
           /\ a.capacity = arc.capacity
           /\ (/\ ~SeqContains(arc.t1, k) /\ ~SeqContains(arc.t2, k)
               /\ ~SeqContains(arc.b1, k) /\ ~SeqContains(arc.b2, k)) => a = arc
           /\ \A v \in TwoValues :
                 /\ get_result(invalidate(put(arc, k, v), k), k).tag = "None"
                 /\ get(invalidate(put(arc, k, v), k), k).misses = arc.misses + 1

\* the last resident key was invalidated after a hit, while a ghost list still
\* holds another key
C26_Witness ==
    /\ arc.t1 = <<>> /\ arc.t2 = <<>>
    /\ arc.cache = EmptyMap
    /\ arc.hits >= 1
    /\ Len(arc.b1) + Len(arc.b2) >= 1
    /\ arc_obs.ret.tag = "Unit"

\* the last (most recently used) key of a list
IsMru(list, key) == Len(list) > 0 /\ list[Len(list)] = key

\* C27: in the adaptivity scenario C is in B1 after the eighth call, A is last in
\* T2 and hits >= 3 after the ninth, and the eleventh call put(C) finds C in B1,
\* strictly raises p and leaves C resident and last in T2.
C27_AdaptivityScenario ==
    [][/\ driver' = 8 => in_b1(arc', "C")
       /\ driver' = 9 => IsMru(arc'.t2, "A") /\ arc'.hits >= 3
       /\ driver' = 11 =>
             /\ in_b1(arc, "C")
             /\ arc'.p > arc.p
             /\ "C" \in DOMAIN arc'.cache
             /\ IsMru(arc'.t2, "C")]_vars


\* the get calls in flight that have passed their lookup
GetsCounted(tk) == {t \in Tasks : tk.op[t] = "get" /\ tk.pc[t] # "get_begin"}

AllReturned(tk) == \A t \in Tasks : tk.pc[t] = "idle"

ListsAndStoreAgree(a) ==
    /\ NoDuplicates(a.t1 \o a.t2 \o a.b1 \o a.b2)
    /\ DOMAIN a.cache = SeqSet(a.t1) \cup SeqSet(a.t2)

\* the list-size bounds of the data model
ListSizeBounds(a) ==
    /\ Len(a.t1) + Len(a.t2) <= a.capacity
    /\ Len(a.t1) + Len(a.b1) <= a.capacity
    /\ Len(a.t2) + Len(a.b2) <= 2 * a.capacity
    /\ Len(a.t1) + Len(a.t2) + Len(a.b1) + Len(a.b2) <= 2 * a.capacity

\* C29: when the put, get and invalidate calls of several threads interleave,
\* each taking and releasing the locks as the code does, then once all calls
\* have returned every key is in at most one place of T1, T2, B1, B2, the keys
\* of the value store are exactly the keys of T1 and T2, and the list-size
\* bounds hold.
C29_ConcurrentArc ==
    AllReturned(tasks) => ListsAndStoreAgree(arc) /\ ListSizeBounds(arc)


\* what the claim says of the cache n that put(key, value) leaves: p is
\* new_p, REPLACE ran once on the cache with key taken out of its ghost list,
\* key is in no ghost list and not in T1, is the MRU element of T2 and has
\* the value
GhostHitOutcome(a, n, key, value, new_p) ==
    LET taken == [a EXCEPT !.p = new_p, !.b1 = retain_ne(@, key),
                           !.b2 = retain_ne(@, key)]
        r == replace(taken, key)
    IN /\ n.p = new_p
       /\ n = [r EXCEPT !.cache = MapInsert(@, key, value), !.t2 = Append(@, key)]
       /\ ~in_b1(n, key) /\ ~in_b2(n, key)
       /\ ~SeqContains(n.t1, key)
       /\ IsMru(n.t2, key)
       /\ key \in DOMAIN n.cache /\ n.cache[key] = value

\* C30: put(k, v) with k in B1 sets p to min(c, p + max(1, |B2| div |B1|)) and
\* put(k, v) with k in B2 sets p to max(0, p - max(1, |B1| div |B2|)), the sizes
\* taken before k is removed; in both cases REPLACE runs once and afterwards k
\* is in no ghost list, is the most recently used element of T2 and has value v.
C30_GhostHit ==
    /\ \A k \in ValueKeys, v \in TwoValues :
          /\ in_b1(arc, k) =>
                GhostHitOutcome(arc, put(arc, k, v), k, v,
                    Min(arc.capacity,
                        arc.p + Max(1, Len(arc.b2) \div Len(arc.b1))))
          /\ in_b2(arc, k) =>
                GhostHitOutcome(arc, put(arc, k, v), k, v,
                    Max(0, arc.p - Max(1, Len(arc.b1) \div Len(arc.b2))))
    /\ \A p \in 0..arc.capacity, own \in 1..2 * arc.capacity,
          other \in 0..2 * arc.capacity :
          /\ b1_hit_p(p, own, other, arc.capacity) =
                Min(arc.capacity, p + Max(1, other \div own))
          /\ b2_hit_p(p, other, own) = Max(0, p - Max(1, other \div own))

\* a put has just hit a ghost list: p was raised by a B1 hit, the key is the
\* MRU element of T2 and the other ghost list still holds a key
C30_Witness ==
    /\ arc.p >= 1
    /\ arc_obs.ret = [tag |-> "Unit", value |-> 0]
    /\ Len(arc.t2) > 0
    /\ arc.t2[Len(arc.t2)] \in DOMAIN arc.cache
    /\ Len(arc.b1) + Len(arc.b2) > 0


\* the condition under which REPLACE(key) is to evict from T1
EvictFromT1Rule(a, key_in_b2) ==
    Len(a.t1) > 0 /\ (Len(a.t1) > a.p \/ (key_in_b2 /\ Len(a.t1) = a.p))

\* r is a with the LRU of T1 moved to the MRU end of B1 and its value dropped
MovedT1ToB1(a, r) ==
    /\ r.t1 = Tail(a.t1)
    /\ IsMru(r.b1, Head(a.t1))
    /\ Head(a.t1) \notin DOMAIN r.cache
    /\ r.t2 = a.t2 /\ r.b2 = a.b2

\* r is a with the LRU of T2 moved to the MRU end of B2 and its value dropped
MovedT2ToB2(a, r) ==
    /\ r.t2 = Tail(a.t2)
    /\ IsMru(r.b2, Head(a.t2))
    /\ Head(a.t2) \notin DOMAIN r.cache
    /\ r.t1 = a.t1 /\ r.b1 = a.b1

\* a put of key is a B2 ghost hit that finds T1 non-empty and as long as the
\* adapted p
B2HitAtPartition(a, key) ==
    /\ in_b2(a, key)
    /\ key \notin DOMAIN a.cache
    /\ ~in_b1(a, key)
    /\ Len(a.t1) > 0
    /\ Len(a.t1) = b2_hit_p(a.p, Len(a.b1), Len(a.b2))

\* C31: REPLACE(key) moves the LRU of T1 to the MRU end of B1 exactly when
\* |T1| > 0 and (|T1| > p or (key is a B2 ghost hit and |T1| = p)), and
\* otherwise moves the LRU of T2 to the MRU end of B2; in particular the put of
\* a key found in B2, with T1 non-empty and |T1| equal to the adapted p, evicts
\* from T1 and not from T2.
C31_ReplaceRule ==
    \A k \in ArcKeys :
       /\ IF EvictFromT1Rule(arc, in_b2(arc, k))
          THEN MovedT1ToB1(arc, replace(arc, k))
          ELSE Len(arc.t2) > 0 => MovedT2ToB2(arc, replace(arc, k))
       /\ B2HitAtPartition(arc, k) =>
             LET n == put(arc, k, 1)
             IN /\ n.t1 = Tail(arc.t1)
                /\ IsMru(n.b1, Head(arc.t1))
                /\ n.t2 = Append(arc.t2, k)


\* the pages the entries of a free list cover
FreeListCover(fl) == UNION {k..(k + fl[k] - 1) : k \in DOMAIN fl}

\* no two entries overlap or touch
FreeListSeparate(fl) ==
    \A j \in DOMAIN fl, k \in DOMAIN fl : j < k => j + fl[j] < k

\* the block [idx, idx + size) lies in one entry of after, which also holds the
\* entry of before that ends at idx and the one that starts at idx + size
MergedWithNeighbours(before, after, idx, size) ==
    \E j \in DOMAIN after :
       /\ j <= idx /\ idx + size <= j + after[j]
       /\ \A k \in DOMAIN before :
             /\ k + before[k] = idx => j <= k
             /\ k = idx + size => k + before[k] <= j + after[j]

\* the large extents the hybrid allocator has handed out
HybridLargeHeld(h) == {idx \in DOMAIN h.alloc_map : h.alloc_map[idx][2]}

\* C32: after dealloc_pages of a large extent the freed block is merged with an
\* adjacent free predecessor and with an adjacent free successor, so that the
\* free-list entries do not overlap, no two are adjacent, and their sizes add
\* up to the number of pages they cover.
C32_HybridCoalescing ==
    \A idx \in HybridLargeHeld(hybrid) :
        LET size == hybrid.alloc_map[idx][1]
            after == hybrid_dealloc_state(hybrid, hybrid.base + idx * PAGE_SIZE).free_list
        IN /\ MergedWithNeighbours(hybrid.free_list, after, idx, size)
           /\ FreeListSeparate(after)
           /\ MapSum(after, DOMAIN after) = Cardinality(FreeListCover(after))


\* a call run alone on the allocator b
BuddyCallAlone(b, call) ==
    CASE call.op = "alloc" ->
            IF buddy_alloc_fits(b, call.n) THEN buddy_alloc_state(b, call.n) ELSE b
      [] call.op = "at" -> buddy_alloc_at_state(b, call.pos, call.n)
      [] OTHER -> buddy_dealloc_state(b, call.pos)

\* the allocators the calls of the threads in ts leave when run one after the
\* other, in every order
RECURSIVE BuddySequentialOutcomes(_, _, _)
BuddySequentialOutcomes(b, round, ts) ==
    IF ts = {} THEN {b}
    ELSE UNION {BuddySequentialOutcomes(BuddyCallAlone(b, round[t]), round, ts \ {t}) :
                   t \in ts}

\* the same blocks free at every order, the same allocation map and used_pages
SameBuddyState(x, y) ==
    /\ x.alloc_map = y.alloc_map
    /\ x.used_pages = y.used_pages
    /\ Len(x.free_lists) = Len(y.free_lists)
    /\ \A k \in 1..Len(x.free_lists) :
          /\ Len(x.free_lists[k]) = Len(y.free_lists[k])
          /\ SeqSet(x.free_lists[k]) = SeqSet(y.free_lists[k])

\* no block and its buddy are both free at an order below max_order
NoFreeBuddyPair(b) ==
    \A k \in 0..(b.max_order - 1) :
       \A i \in SeqSet(b.free_lists[k + 1]) :
          xor_bit(i, k) \notin SeqSet(b.free_lists[k + 1])

\* C33: when alloc_pages, alloc_pages_at and dealloc_pages calls of several
\* threads interleave, the allocator after all calls returned is the one some
\* sequential order of the same calls produces; two buddies freed by two
\* threads end up coalesced, and the free blocks plus used_pages account for
\* total_pages.
C33_BuddyAtomic ==
    (BuddyAllIdle(procs.buddy) /\ DOMAIN procs.buddy.round # {}) =>
        /\ \E b \in BuddySequentialOutcomes(procs.buddy.snap, procs.buddy.round,
                                            DOMAIN procs.buddy.round) :
              SameBuddyState(buddy, b)
        /\ NoFreeBuddyPair(buddy)
        /\ BuddyFreePages(buddy) + buddy.used_pages = buddy.total_pages


\* the extents a and b share no page
ExtentsApart(a, b) ==
    a.addr + a.pages * PAGE_SIZE <= b.addr \/ b.addr + b.pages * PAGE_SIZE <= a.addr

\* C34: when threads call alloc_pages or alloc_pages_at concurrently on one
\* HybridAllocator, no two successful calls return the same or overlapping
\* extents, and every extent handed out has its allocation-map record.
C34_HybridConcurrentAlloc ==
    LET got == procs.hybrid.got
    IN /\ \A i \in 1..Len(got), j \in 1..Len(got) :
             i < j => ExtentsApart(got[i], got[j])
       /\ \A i \in 1..Len(got) :
             LET idx == (got[i].addr - hybrid.base) \div PAGE_SIZE
             IN /\ idx \in DOMAIN hybrid.alloc_map
                /\ hybrid.alloc_map[idx][1] = got[i].pages


\* the place of a lock in the order value-store, T1, T2, B1, B2: of the lock
\* the statement at pc takes (0 when it takes none) and of the locks held when
\* it is reached
LockTakenAt(pc) ==
    CASE pc \in TakesCache -> 1
      [] pc \in TakesT1 -> 2
      [] pc \in TakesT2 -> 3
      [] pc \in TakesB1 -> 4
      [] pc \in TakesB2 -> 5
      [] OTHER -> 0

LocksHeldAt(pc) ==
    (IF pc \in HoldsT1 THEN {2} ELSE {}) \cup (IF pc \in HoldsT2 THEN {3} ELSE {})

\* C35: a thread in get, put or invalidate that holds one of the five locks and
\* takes another takes them in the order value-store, T1, T2, B1, B2; it never
\* takes the value-store lock while it holds the T1 or the T2 lock.
C35_LockOrder ==
    \A t \in Tasks :
       \A held \in LocksHeldAt(tasks.pc[t]) :
          LockTakenAt(tasks.pc[t]) = 0 \/ held < LockTakenAt(tasks.pc[t])


\* C39: in handle_b1_hit the divisor |B1|, and in handle_b2_hit the divisor |B2|,
\* is at least 1 whenever the division is evaluated, also when another thread's
\* put or invalidate removes keys from that ghost list between the membership
\* check in put and the length reads: no call ends in the division's panic.
C39_NoDivideByZero ==
    \A t \in Tasks : tasks.pc[t] # "panicked"


\* C40: every get that incremented hits returns a value, and every get that
\* returns absent incremented misses, also when a put that evicts the key or an
\* invalidate of the key runs between the get's lookup and its final read: no
\* get is about to return absent after it counted a hit.
C40_HitReturnsValue ==
    \A t \in Tasks : tasks.op[t] = "get" => tasks.pc[t] # "ret_none"


\* C38: for any interleaving of get, put and invalidate calls on one cache no
\* set of threads ends up each waiting for a lock held by another, and under
\* fair scheduling every call eventually returns.
C38_EveryCallReturns ==
    \A t \in Tasks : (tasks.pc[t] # "idle") ~> (tasks.pc[t] = "idle")


\* C36: once remove_watch(wd) has returned, no event that matches only the
\* removed watch is appended to the queue by a trigger call that ran
\* concurrently with it: every append happens while some registered watch
\* matches the event.
C36_NoAppendAfterRemove ==
    ~procs.notify.stale


\* the cache holds for `path` what the VFS holds, or nothing
CacheAgreesWithVfs(f, path) ==
    path \in DOMAIN f.cache.cache =>
        /\ f.vfs[path].kind = "file"
        /\ f.cache.cache[path] = f.vfs[path].data

\* C37: when a read_file(path) on the cache-miss path runs concurrently with
\* write_file(path, data) or remove_file(path), then after both calls have
\* returned the cache entry for path equals the bytes the VFS holds for path, or
\* is absent if the file was removed.
C37_CacheFillNotStale ==
    (\A t \in Procs : procs.hooks.thr[t].pc = "idle") => CacheAgreesWithVfs(fs, HookPath)

====
